---------------------------- MODULE Spec2Model ----------------------------
(***************************************************************************)
(* Model of the temporal classification engine of meraki-client-detective  *)
(* (src/app.py): the hour classifiers, detect_loitering_patterns,          *)
(* analyze_out_of_hours_patterns, analyze_extended_sessions and the event  *)
(* deduplication of run_analysis.                                          *)
(*                                                                         *)
(* A timestamp 'YYYY-MM-DDTHH:MM:SS.mmmZ' is the record                    *)
(* [date |-> day ordinal, ms |-> millisecond of the day]; timestamp[:10]   *)
(* is its date field, string comparison of two such timestamps is the      *)
(* lexicographic order on (date, ms).  A timestamp of form "junk" is such  *)
(* a string followed by text that fromisoformat rejects, and one of form   *)
(* "none" is a missing value (None).  Python's None is otherwise the empty *)
(* tuple and a present optional value x is <<x>>.  A dict the code mutates *)
(* after it was appended to a list is an object of a heap; the lists hold  *)
(* references (heap indices) until the function returns.                   *)
(***************************************************************************)
EXTENDS Integers, Sequences, FiniteSets, TLC

\* Bounds of the model.
MaxConns == 4
MaxDayConns == 3
MaxEvents == 3

\* total_seconds() / 3600, on millisecond timestamps.
SecondsPerHour == 3600
HourMs == SecondsPerHour * 1000

None == <<>>
Some(x) == <<x>>

Ts(d, ms) == [date |-> d, ms |-> ms, form |-> "iso"]
\* 'YYYY-MM-DDTHH:MM:SS.mmmZ' followed by text that is no part of a timestamp.
JunkTs(d, ms) == [date |-> d, ms |-> ms, form |-> "junk"]
\* A record without a timestamp value: event.get('occurredAt') is None.
NoTs == [date |-> 0, ms |-> 0, form |-> "none"]
DatePart(ts) == ts.date
HourOf(ts) == ts.ms \div HourMs
\* str < str: a string is smaller than itself followed by more text.
TsLess(a, b) ==
    \/ a.date < b.date
    \/ a.date = b.date /\ a.ms < b.ms
    \/ a.date = b.date /\ a.ms = b.ms /\ a.form = "iso" /\ b.form = "junk"
\* datetime.fromisoformat(timestamp.replace('Z', '+00:00')) raises: ValueError
\* on text it cannot parse, AttributeError on None.
parse_raises(timestamp) == timestamp.form # "iso"
\* timestamp[:10] raises TypeError on None.
slice_raises(timestamp) == timestamp.form = "none"
TsLeq(a, b) == ~TsLess(b, a)
NextDay(d) == d + 1

Range(s) == {s[i] : i \in 1..Len(s)}

RECURSIVE MinTs(_)
MinTs(conns) ==
    IF Len(conns) = 1 THEN conns[1].timestamp
    ELSE LET m == MinTs(Tail(conns))
         IN IF TsLess(m, conns[1].timestamp) THEN m ELSE conns[1].timestamp

RECURSIVE MaxTs(_)
MaxTs(conns) ==
    IF Len(conns) = 1 THEN conns[1].timestamp
    ELSE LET m == MaxTs(Tail(conns))
         IN IF TsLess(conns[1].timestamp, m) THEN m ELSE conns[1].timestamp

\* 'except:' replaced by 'except ValueError:', which lets the AttributeError
\* of a None timestamp through.
classifier_raises_on_none(timestamp) == timestamp.form = "none"

\* What leaves the try/except of the two hour classifiers: the bare 'except:'
\* catches every exception.
classifier_raises(timestamp) == FALSE

\* The out-of-hours test with 'and' in place of 'or'.
is_out_of_hours_and(timestamp) ==
    IF parse_raises(timestamp) THEN FALSE
    ELSE HourOf(timestamp) >= 18 /\ HourOf(timestamp) < 6

is_out_of_hours(timestamp) ==
    IF parse_raises(timestamp) THEN FALSE
    ELSE LET hour == HourOf(timestamp) IN hour >= 18 \/ hour < 6

is_business_hours(timestamp) ==
    IF parse_raises(timestamp) THEN FALSE
    ELSE LET hour == HourOf(timestamp) IN 6 <= hour /\ hour < 18

\* event.get('clientMac') of an event without the key: None.
MissingMac == "None"

\* 'if mac is None' in place of the truth test.
falsy_mac_none_only(mac) == mac = MissingMac

\* 'not mac': the empty string and None are false.
falsy_mac(mac) == mac \in {"", MissingMac}

\* Keys of a dict filled by 'if mac not in d: d[mac] = ...', in insertion order.
RECURSIVE KeysInOrder(_, _)
KeysInOrder(conns, keys) ==
    IF conns = <<>> THEN keys
    ELSE LET mac == Head(conns).client_mac
         IN KeysInOrder(Tail(conns),
                        IF mac \in Range(keys) THEN keys ELSE Append(keys, mac))

\* list.sort(key=lambda x: x['timestamp']): a stable sort.
RECURSIVE InsertByTimestamp(_, _)
InsertByTimestamp(sorted, conn) ==
    IF sorted = <<>> THEN <<conn>>
    ELSE IF TsLess(conn.timestamp, sorted[Len(sorted)].timestamp)
         THEN Append(InsertByTimestamp(SubSeq(sorted, 1, Len(sorted) - 1), conn),
                     sorted[Len(sorted)])
         ELSE Append(sorted, conn)

RECURSIVE SortByTimestamp(_)
SortByTimestamp(conns) ==
    IF conns = <<>> THEN <<>>
    ELSE InsertByTimestamp(SortByTimestamp(SubSeq(conns, 1, Len(conns) - 1)),
                           conns[Len(conns)])

\* The per-MAC lists of the target date that both single-day detectors build.
target_day_connections(connections, target_date) ==
    LET OnDay(conn) == DatePart(conn.timestamp) = target_date /\ ~falsy_mac(conn.client_mac)
    IN SelectSeq(connections, OnDay)

device_conns_of(day_conns, mac) ==
    LET Mine(conn) == conn.client_mac = mac
    IN SortByTimestamp(SelectSeq(day_conns, Mine))

duration_ms(first, last) ==
    (last.date - first.date) * 24 * HourMs + (last.ms - first.ms)

\* round(duration_hours, 1), in tenths of an hour (to nearest).
rounded_tenths(ms) == (2 * ms + (HourMs \div 10)) \div (2 * (HourMs \div 10))

\* duration_hours > 8 with a >= in place of the >.
loitering_trigger_inclusive(first, last) ==
    /\ 6 <= HourOf(first) /\ HourOf(first) < 18
    /\ HourOf(last) >= 18
    /\ duration_ms(first, last) >= 8 * HourMs

loitering_trigger(first, last) ==
    LET arrived_business_hours == 6 <= HourOf(first) /\ HourOf(first) < 18
        stayed_late == HourOf(last) >= 18
    IN arrived_business_hours /\ stayed_late /\ duration_ms(first, last) > 8 * HourMs

\* departed_hour always the 'still connected' sentinel.
loitering_record_still_connected(mac, device_conns) ==
    LET first == device_conns[1].timestamp
        last == device_conns[Len(device_conns)].timestamp
    IN [mac |-> mac,
        description |-> device_conns[1].client_description,
        first_target_connection |-> first,
        last_target_connection |-> last,
        duration_hours |-> rounded_tenths(duration_ms(first, last)),
        target_date_connections |-> Len(device_conns),
        baseline_connections |-> 0,
        days_seen_out_of_hours |-> 1,
        arrived_hour |-> HourOf(first),
        departed_hour |-> 24,
        risk_level |-> "LOITERING_SUSPICIOUS",
        risk_explanation |-> [template |-> "LOITERING PATTERN",
                              args |-> <<HourOf(first), HourOf(last),
                                         rounded_tenths(duration_ms(first, last))>>]]

loitering_record(mac, device_conns) ==
    LET first == device_conns[1].timestamp
        last == device_conns[Len(device_conns)].timestamp
    IN [mac |-> mac,
        description |-> device_conns[1].client_description,
        first_target_connection |-> first,
        last_target_connection |-> last,
        duration_hours |-> rounded_tenths(duration_ms(first, last)),
        target_date_connections |-> Len(device_conns),
        baseline_connections |-> 0,
        days_seen_out_of_hours |-> 1,
        arrived_hour |-> HourOf(first),
        departed_hour |-> IF HourOf(last) >= 18 THEN HourOf(last) ELSE 24,
        risk_level |-> "LOITERING_SUSPICIOUS",
        risk_explanation |-> [template |-> "LOITERING PATTERN",
                              args |-> <<HourOf(first), HourOf(last),
                                         rounded_tenths(duration_ms(first, last))>>]]

RECURSIVE loitering_loop(_, _, _)
loitering_loop(macs, day_conns, loitering_devices) ==
    IF macs = <<>> THEN loitering_devices
    ELSE LET mac == Head(macs)
             device_conns == device_conns_of(day_conns, mac)
         IN loitering_loop(Tail(macs), day_conns,
                IF Len(device_conns) < 2 THEN loitering_devices
                ELSE IF loitering_trigger(device_conns[1].timestamp,
                                          device_conns[Len(device_conns)].timestamp)
                     THEN Append(loitering_devices, loitering_record(mac, device_conns))
                     ELSE loitering_devices)

detect_loitering_patterns(connections, target_date) ==
    LET day_conns == target_day_connections(connections, target_date)
    IN loitering_loop(KeysInOrder(day_conns, <<>>), day_conns, <<>>)

\* The extended-session trigger with the loitering detector's 8 hour floor.
extended_trigger_with_floor(first, last) ==
    is_business_hours(first) /\ HourOf(last) >= 18
        /\ duration_ms(first, last) > 8 * HourMs

extended_trigger(first, last) ==
    LET connected_business_hours == is_business_hours(first)
        stayed_after_hours == HourOf(last) >= 18
    IN connected_business_hours /\ stayed_after_hours

extended_record(mac, device_conns) ==
    LET first == device_conns[1].timestamp
        last == device_conns[Len(device_conns)].timestamp
    IN [mac |-> mac,
        description |-> device_conns[1].client_description,
        first_connection |-> first,
        last_connection |-> last,
        duration_hours |-> rounded_tenths(duration_ms(first, last)),
        total_connections |-> Len(device_conns),
        connected_hour |-> HourOf(first),
        last_seen_hour |-> HourOf(last),
        business_hours_start |-> TRUE,
        after_hours_activity |-> TRUE,
        risk_explanation |-> [template |-> "EXTENDED SESSION",
                              args |-> <<HourOf(first), HourOf(last),
                                         rounded_tenths(duration_ms(first, last))>>]]

RECURSIVE extended_loop(_, _, _)
extended_loop(macs, day_conns, extended_session_devices) ==
    IF macs = <<>> THEN extended_session_devices
    ELSE LET mac == Head(macs)
             device_conns == device_conns_of(day_conns, mac)
         IN extended_loop(Tail(macs), day_conns,
                IF Len(device_conns) < 2 THEN extended_session_devices
                ELSE IF extended_trigger(device_conns[1].timestamp,
                                         device_conns[Len(device_conns)].timestamp)
                     THEN Append(extended_session_devices,
                                 extended_record(mac, device_conns))
                     ELSE extended_session_devices)

\* Called with an explicit target date (the default is not modelled here).
analyze_extended_sessions(connections, target_date) ==
    LET day_conns == target_day_connections(connections, target_date)
    IN extended_loop(KeysInOrder(day_conns, <<>>), day_conns, <<>>)

\* Where the two single-day detectors raise: timestamp[:10] of a missing
\* timestamp while grouping, and fromisoformat of the first or last timestamp
\* of a device with two or more connections on the target date.
first_or_last_unparsable(connections, target_date) ==
    LET day_conns == target_day_connections(connections, target_date)
        macs == KeysInOrder(day_conns, <<>>)
    IN \E k \in 1..Len(macs) :
         LET device_conns == device_conns_of(day_conns, macs[k])
         IN /\ Len(device_conns) >= 2
            /\ \/ parse_raises(device_conns[1].timestamp)
               \/ parse_raises(device_conns[Len(device_conns)].timestamp)

detect_loitering_raises(connections, target_date) ==
    \/ \E i \in 1..Len(connections) : slice_raises(connections[i].timestamp)
    \/ first_or_last_unparsable(connections, target_date)

analyze_extended_sessions_raises(connections, target_date) ==
    \/ \E i \in 1..Len(connections) : slice_raises(connections[i].timestamp)
    \/ first_or_last_unparsable(connections, target_date)

\* The list objects the two single-day detectors write to: the caller's list
\* is only read, 'target_day_connections[mac] = []' makes a list of its own
\* for every device, and append and sort act on that list.
grouped_lists(connections, target_date) ==
    LET day_conns == target_day_connections(connections, target_date)
        macs == KeysInOrder(day_conns, <<>>)
    IN [caller |-> connections,
        keys |-> macs,
        groups |-> [mac \in Range(macs) |->
                      LET Mine(conn) == conn.client_mac = mac
                      IN SelectSeq(day_conns, Mine)]]

\* 'connections.sort(...)' before the grouping in place of the sort of each
\* device's own list.
sorted_list_caller(mac) == "caller"

\* device_conns.sort(...): the list that is sorted in place.
sorted_list(mac) == mac

sort_in_place(lists, list) ==
    IF list = "caller"
    THEN [lists EXCEPT !.caller = SortByTimestamp(@)]
    ELSE [lists EXCEPT !.groups[list] = SortByTimestamp(@)]

RECURSIVE sort_loop(_, _)
sort_loop(macs, lists) ==
    IF macs = <<>> THEN lists
    ELSE sort_loop(Tail(macs),
                   IF Len(lists.groups[Head(macs)]) < 2 THEN lists
                   ELSE sort_in_place(lists, sorted_list(Head(macs))))

\* The caller's list when detect_loitering_patterns or analyze_extended_sessions
\* returns.
input_after_detection(connections, target_date) ==
    LET lists == grouped_lists(connections, target_date)
    IN sort_loop(lists.keys, lists).caller

\* The caller's list when analyze_out_of_hours_patterns returns: the filter
\* and the grouping build new lists and dicts, and the loitering detector is
\* called on the caller's list.
input_after_analysis(connections, target_date) ==
    input_after_detection(connections, target_date)

\* The default taken from the latest out-of-hours event of a known device.
resolve_target_date_out_of_hours_only(connections, target_date, today) ==
    LET Counted(conn) == is_out_of_hours(conn.timestamp) /\ ~falsy_mac(conn.client_mac)
    IN IF target_date # None THEN target_date[1]
       ELSE IF SelectSeq(connections, Counted) # <<>>
            THEN DatePart(MaxTs(SelectSeq(connections, Counted)))
            ELSE today

\* 'if not target_date:' at the head of analyze_out_of_hours_patterns and of
\* analyze_extended_sessions; today is datetime.now().
resolve_target_date(connections, target_date, today) ==
    IF target_date # None THEN target_date[1]
    ELSE IF connections # <<>>
         THEN DatePart(MaxTs(connections))
         ELSE today

\* max() without the 'if connections:' guard: ValueError on an empty list.
resolve_target_date_raises_on_empty(connections, target_date) ==
    /\ target_date = None
    /\ \/ connections = <<>>
       \/ \E i \in 1..Len(connections) : slice_raises(connections[i].timestamp)

\* max() compares a missing timestamp with the others, or None[:10] follows.
resolve_target_date_raises(connections, target_date) ==
    /\ target_date = None
    /\ \E i \in 1..Len(connections) : slice_raises(connections[i].timestamp)

\* The night-cycle test without its morning half.
is_target_night_evening_only(conn, target_date) ==
    DatePart(conn.timestamp) = target_date /\ HourOf(conn.timestamp) >= 18

is_target_night(conn, target_date) ==
    LET conn_date == DatePart(conn.timestamp)
        next_day == NextDay(target_date)
        is_target_evening == conn_date = target_date /\ HourOf(conn.timestamp) >= 18
        is_target_morning == conn_date = next_day /\ HourOf(conn.timestamp) < 6
    IN is_target_evening \/ is_target_morning

new_device_pattern(conn) ==
    [description |-> conn.client_description,
     target_date_connections |-> <<>>,
     baseline_connections |-> <<>>,
     all_dates |-> {}]

\* all_dates.add(conn_date) moved into the baseline branch.
add_to_pattern_baseline_dates(data, conn, target_date) ==
    IF is_target_night(conn, target_date)
    THEN [data EXCEPT !.target_date_connections = Append(@, conn)]
    ELSE [data EXCEPT !.all_dates = @ \cup {DatePart(conn.timestamp)},
                      !.baseline_connections = Append(@, conn)]

\* One iteration of the aggregation loop over the out-of-hours connections.
add_to_pattern(data, conn, target_date) ==
    LET dated == [data EXCEPT !.all_dates = @ \cup {DatePart(conn.timestamp)}]
    IN IF is_target_night(conn, target_date)
       THEN [dated EXCEPT !.target_date_connections = Append(@, conn)]
       ELSE [dated EXCEPT !.baseline_connections = Append(@, conn)]

RECURSIVE group_patterns(_, _, _)
group_patterns(conns, target_date, device_patterns) ==
    IF conns = <<>> THEN device_patterns
    ELSE LET conn == Head(conns)
             mac == conn.client_mac
         IN IF falsy_mac(mac) THEN group_patterns(Tail(conns), target_date, device_patterns)
            ELSE LET known == mac \in Range(device_patterns.keys)
                     data == IF known THEN device_patterns.data[mac]
                             ELSE new_device_pattern(conn)
                 IN group_patterns(Tail(conns), target_date,
                        [keys |-> IF known THEN device_patterns.keys
                                  ELSE Append(device_patterns.keys, mac),
                         data |-> [m \in DOMAIN device_patterns.data \cup {mac} |->
                                      IF m = mac THEN add_to_pattern(data, conn, target_date)
                                      ELSE device_patterns.data[m]]])

build_device_patterns(connections, target_date) ==
    LET OutOfHours(conn) == is_out_of_hours(conn.timestamp)
        out_of_hours_connections == SelectSeq(connections, OutOfHours)
    IN group_patterns(out_of_hours_connections, target_date,
                      [keys |-> <<>>, data |-> [m \in {} |-> 0]])

\* next((ld for ld in loitering_devices if ld['mac'] == mac), None)
find_loitering(loitering_devices, mac) ==
    LET Mine(ld) == ld.mac = mac
        found == SelectSeq(loitering_devices, Mine)
    IN IF found = <<>> THEN None ELSE Some(found[1])

\* The decision chain with the baseline rules tried before the loitering flag.
risk_rule_loitering_last(loitering_device, baseline_count, days_seen) ==
    IF baseline_count = 0 THEN 2
    ELSE IF baseline_count >= 1 /\ days_seen >= 2 THEN 3
    ELSE IF baseline_count >= 3 THEN 4
    ELSE IF loitering_device # None THEN 1
    ELSE 5

\* The decision chain with the multi-day rule tested on days_seen alone, first.
risk_rule_days_first(loitering_device, baseline_count, days_seen) ==
    IF loitering_device # None THEN 1
    ELSE IF days_seen >= 2 THEN 3
    ELSE IF baseline_count = 0 THEN 2
    ELSE IF baseline_count >= 3 THEN 4
    ELSE 5

\* The decision chain without the single-day rule.
risk_rule_no_single_day(loitering_device, baseline_count, days_seen) ==
    IF loitering_device # None THEN 1
    ELSE IF baseline_count = 0 THEN 2
    ELSE IF baseline_count >= 1 /\ days_seen >= 2 THEN 3
    ELSE 5

\* The if/elif chain for a device seen on the target night: the branch taken.
risk_rule(loitering_device, baseline_count, days_seen) ==
    IF loitering_device # None THEN 1
    ELSE IF baseline_count = 0 THEN 2
    ELSE IF baseline_count >= 1 /\ days_seen >= 2 THEN 3
    ELSE IF baseline_count >= 3 THEN 4
    ELSE 5

\* The chain of branches without its final 'else': the provisional label stays.
rule_risk_level_without_else(rule) ==
    CASE rule = 1 -> "LOITERING_SUSPICIOUS"
      [] rule = 2 -> "ANOMALOUS_SUSPICIOUS"
      [] rule = 3 -> "BASELINE_REGULAR"
      [] rule = 4 -> "BASELINE_REGULAR"
      [] rule = 5 -> "TARGET_DATE"

rule_risk_level(rule) ==
    CASE rule = 1 -> "LOITERING_SUSPICIOUS"
      [] rule = 2 -> "ANOMALOUS_SUSPICIOUS"
      [] rule = 3 -> "BASELINE_REGULAR"
      [] rule = 4 -> "BASELINE_REGULAR"
      [] rule = 5 -> "ANOMALOUS_SUSPICIOUS"

\* Every branch appending to anomalous_devices.
rule_bucket_all_anomalous(rule) == "anomalous_devices"

\* The loitering branch appending to baseline_regular_devices.
rule_bucket_loitering_regular(rule) ==
    CASE rule = 1 -> "baseline_regular_devices"
      [] rule = 2 -> "anomalous_devices"
      [] rule = 3 -> "baseline_regular_devices"
      [] rule = 4 -> "baseline_regular_devices"
      [] rule = 5 -> "anomalous_devices"

rule_bucket(rule) ==
    CASE rule = 1 -> "anomalous_devices"
      [] rule = 2 -> "anomalous_devices"
      [] rule = 3 -> "baseline_regular_devices"
      [] rule = 4 -> "baseline_regular_devices"
      [] rule = 5 -> "anomalous_devices"

rule_explanation(rule, loitering_device, target_count, baseline_count, days_seen) ==
    CASE rule = 1 -> loitering_device[1].risk_explanation
      [] rule = 2 -> [template |-> "NEVER seen out-of-hours", args |-> <<target_count>>]
      [] rule = 3 -> [template |-> "Regular: across days",
                      args |-> <<baseline_count, days_seen>>]
      [] rule = 4 -> [template |-> "Regular: single day pattern",
                      args |-> <<baseline_count>>]
      [] rule = 5 -> [template |-> "Suspicious pattern",
                      args |-> <<baseline_count, days_seen, target_count>>]

new_device_info(mac, data) ==
    [mac |-> mac,
     description |-> data.description,
     target_date_connections |-> Len(data.target_date_connections),
     baseline_connections |-> Len(data.baseline_connections),
     days_seen_out_of_hours |-> Cardinality(data.all_dates),
     first_target_connection |->
        IF data.target_date_connections # <<>>
        THEN Some(MinTs(data.target_date_connections)) ELSE None,
     last_target_connection |->
        IF data.target_date_connections # <<>>
        THEN Some(MaxTs(data.target_date_connections)) ELSE None,
     risk_explanation |-> [template |-> "", args |-> <<>>],
     risk_level |-> None,
     duration_hours |-> None,
     arrived_hour |-> None,
     departed_hour |-> None]

\* device_info.copy() replaced by a second reference to device_info.
dict_alias(heap, ref) == heap

\* device_info.copy(): a new object with the same items; its reference is Len of the
\* returned heap.
dict_copy(heap, ref) == Append(heap, heap[ref])

\* The 'if target_count > 0' branch for one device.
classify_target_device(st, ref, loitering_devices) ==
    LET info == st.heap[ref]
        loitering_device == find_loitering(loitering_devices, info.mac)
        rule == risk_rule(loitering_device, info.baseline_connections,
                          info.days_seen_out_of_hours)
        listed == [st EXCEPT !.heap[ref].risk_level = Some("TARGET_DATE"),
                             !.target_date_devices = Append(@, ref)]
        labelled == [listed.heap[ref] EXCEPT
                        !.risk_level = Some(rule_risk_level(rule)),
                        !.risk_explanation =
                            rule_explanation(rule, loitering_device,
                                             info.target_date_connections,
                                             info.baseline_connections,
                                             info.days_seen_out_of_hours),
                        !.duration_hours =
                            IF rule = 1 THEN Some(loitering_device[1].duration_hours) ELSE @,
                        !.arrived_hour =
                            IF rule = 1 THEN Some(loitering_device[1].arrived_hour) ELSE @,
                        !.departed_hour =
                            IF rule = 1 THEN Some(loitering_device[1].departed_hour) ELSE @]
    IN [listed EXCEPT !.heap[ref] = labelled,
                      ![rule_bucket(rule)] = Append(@, ref)]

\* The 'elif baseline_count > 0' branch for one device.
classify_baseline_device(st, ref) ==
    LET info == st.heap[ref]
        baseline_count == info.baseline_connections
        days_seen == info.days_seen_out_of_hours
        listed == [st EXCEPT
                      !.heap[ref].risk_level = Some("BASELINE_ONLY"),
                      !.heap[ref].risk_explanation =
                          IF days_seen >= 3
                          THEN [template |-> "Always-on device",
                                args |-> <<baseline_count, days_seen>>]
                          ELSE [template |-> "Baseline device",
                                args |-> <<baseline_count, days_seen>>],
                      !.baseline_only_devices = Append(@, ref)]
        copied == dict_copy(listed.heap, ref)
        copy_ref == Len(copied)
    IN IF (baseline_count >= 1 /\ days_seen >= 2) \/ baseline_count >= 3
       THEN [listed EXCEPT
                !.heap = [copied EXCEPT ![copy_ref].risk_level = Some("BASELINE_REGULAR")],
                !.baseline_regular_devices = Append(@, copy_ref)]
       ELSE listed

\* 'elif baseline_count > 0' written as a second, independent 'if'.
RECURSIVE classify_loop_independent_branches(_, _, _, _)
classify_loop_independent_branches(macs, device_patterns, loitering_devices, st) ==
    IF macs = <<>> THEN st
    ELSE LET mac == Head(macs)
             data == device_patterns.data[mac]
             target_count == Len(data.target_date_connections)
             baseline_count == Len(data.baseline_connections)
             alloc == [st EXCEPT !.heap = Append(@, new_device_info(mac, data))]
             ref == Len(alloc.heap)
             targeted == IF target_count > 0
                         THEN classify_target_device(alloc, ref, loitering_devices)
                         ELSE alloc
         IN classify_loop_independent_branches(Tail(macs), device_patterns,
                loitering_devices,
                IF baseline_count > 0
                THEN classify_baseline_device(targeted, ref)
                ELSE targeted)

RECURSIVE classify_loop(_, _, _, _)
classify_loop(macs, device_patterns, loitering_devices, st) ==
    IF macs = <<>> THEN st
    ELSE LET mac == Head(macs)
             data == device_patterns.data[mac]
             target_count == Len(data.target_date_connections)
             baseline_count == Len(data.baseline_connections)
             alloc == [st EXCEPT !.heap = Append(@, new_device_info(mac, data))]
             ref == Len(alloc.heap)
         IN classify_loop(Tail(macs), device_patterns, loitering_devices,
                IF target_count > 0
                THEN classify_target_device(alloc, ref, loitering_devices)
                ELSE IF baseline_count > 0
                     THEN classify_baseline_device(alloc, ref)
                     ELSE alloc)

\* The lists of the returned dict, each reference replaced by the object it names.
analysis_of(st, loitering_devices) ==
    LET Deref(refs) == [i \in 1..Len(refs) |-> st.heap[refs[i]]]
    IN [target_date_devices |-> Deref(st.target_date_devices),
        baseline_regular_devices |-> Deref(st.baseline_regular_devices),
        anomalous_devices |-> Deref(st.anomalous_devices),
        baseline_only_devices |-> Deref(st.baseline_only_devices),
        loitering_devices |-> loitering_devices]

analysis_result(connections, target_date) ==
    LET device_patterns == build_device_patterns(connections, target_date)
        loitering_devices == detect_loitering_patterns(connections, target_date)
        st0 == [heap |-> <<>>,
                target_date_devices |-> <<>>,
                baseline_regular_devices |-> <<>>,
                anomalous_devices |-> <<>>,
                baseline_only_devices |-> <<>>]
    IN analysis_of(classify_loop(device_patterns.keys, device_patterns,
                                 loitering_devices, st0),
                   loitering_devices)

\* The result with the extended-session report merged in as a sixth bucket.
analyze_with_extended_sessions(connections, target_date) ==
    [b \in DOMAIN analysis_result(connections, target_date)
              \cup {"extended_session_devices"} |->
        IF b = "extended_session_devices"
        THEN analyze_extended_sessions(connections, target_date)
        ELSE analysis_result(connections, target_date)[b]]

\* Called with an explicit target date, as run_analysis calls it.
analyze_out_of_hours_patterns(connections, target_date) ==
    analysis_result(connections, target_date)

\* The out-of-hours filter and the grouping see parsable timestamps only;
\* the exception of the loitering detector is not caught.
analyze_out_of_hours_raises(connections, target_date) ==
    detect_loitering_raises(connections, target_date)

\* The key of the seen_events set with the event type left out.
event_key_without_type(event) == <<event.occurredAt, event.clientMac>>

\* (event.get('occurredAt'), event.get('clientMac'), event.get('type'))
event_key(event) == <<event.occurredAt, event.clientMac, event.type>>

\* The deduplication loop of run_analysis: seen_events and deduplicated_events.
RECURSIVE dedup_loop(_, _, _)
dedup_loop(all_events, seen_events, deduplicated_events) ==
    IF all_events = <<>> THEN deduplicated_events
    ELSE LET event == Head(all_events)
         IN IF event_key(event) \notin seen_events
            THEN dedup_loop(Tail(all_events), seen_events \cup {event_key(event)},
                            Append(deduplicated_events, event))
            ELSE dedup_loop(Tail(all_events), seen_events, deduplicated_events)

deduplicate(baseline, target) ==
    LET all_events == baseline \o target
    IN dedup_loop(all_events, {}, <<>>)

\* for i in range(7, 0, -1): the baseline days before the investigation date.
BaselineDays == 7

\* The loop counting up: range(1, 8).
baseline_anchor_ascending(k) == 1 + ((k - 1) \div 2)

\* The value of i at the k-th call of get_client_events (two calls per i).
baseline_anchor(k) == BaselineDays - ((k - 1) \div 2)

\* The k-th window of get_comprehensive_baseline_events: the evening of day
\* D-i, then the morning of the day after it.
baseline_window(investigation_date, k) ==
    LET day == investigation_date - baseline_anchor(k)
    IN IF k % 2 = 1
       THEN [start_time |-> Ts(day, 18 * HourMs), end_time |-> Ts(day, 24 * HourMs - 1)]
       ELSE [start_time |-> Ts(day + 1, 0), end_time |-> Ts(day + 1, 6 * HourMs - 1)]

\* The investigation period starting at 06:00 instead of DEFAULT_START_TIME.
target_window_from_morning(investigation_date) ==
    [start_time |-> Ts(investigation_date, 6 * HourMs),
     end_time |-> Ts(investigation_date + 1, 6 * HourMs)]

\* investigation_time 18:00 on the investigation date up to target_end,
\* 06:00 of the next day.
target_window(investigation_date) ==
    [start_time |-> Ts(investigation_date, 18 * HourMs),
     end_time |-> Ts(investigation_date + 1, 6 * HourMs)]

\* The page filter with 'event_time <= end_time'.
window_filter_inclusive(page_events, start_time, end_time) ==
    LET InWindow(event) == /\ TsLeq(start_time, event.occurredAt)
                           /\ TsLeq(event.occurredAt, end_time)
    IN SelectSeq(page_events, InWindow)

\* 'if event_time >= start_time and event_time < end_time' over a page.
window_filter(page_events, start_time, end_time) ==
    LET InWindow(event) == /\ TsLeq(start_time, event.occurredAt)
                           /\ TsLess(event.occurredAt, end_time)
    IN SelectSeq(page_events, InWindow)

\* The 'except Exception' of get_client_events left out: a failed request
\* leaves the collector as an exception.
fetch_failure_propagates_unhandled == TRUE

\* get_client_events answers a failed request with 'return []'.
fetch_failure_propagates == FALSE

\* get_client_events with an end_time, on a source that holds fewer events
\* than one page: the page is filtered to the window and the loop ends.
get_client_events(source_events, start_time, end_time) ==
    window_filter(source_events, start_time, end_time)

\* event.get('type') of an event without the key: None.
MissingType == "None"

\* The type list with the de-authentication events let through.
ConnectionTypes_with_deauth == {"association", "wpa_auth", "disassociation", "wpa_deauth"}

ConnectionTypes == {"association", "wpa_auth", "disassociation"}

\* The conversion of the deduplicated events into connection records.
to_connections(events) ==
    LET Kept(event) == event.type \in ConnectionTypes
        kept == SelectSeq(events, Kept)
    IN [i \in 1..Len(kept) |->
          [timestamp |-> kept[i].occurredAt,
           event_type |-> kept[i].type,
           client_mac |-> kept[i].clientMac,
           client_description |-> kept[i].clientDescription]]

\* The rows stream_30_days_to_csv writes for the events of one day: the same
\* type test and record as the conversion, without deduplication.
stream_rows(day_events) ==
    LET Kept(event) == event.type \in ConnectionTypes
        kept == SelectSeq(day_events, Kept)
    IN [i \in 1..Len(kept) |->
          [timestamp |-> kept[i].occurredAt,
           event_type |-> kept[i].type,
           client_mac |-> kept[i].clientMac,
           client_description |-> kept[i].clientDescription]]

---------------------------------------------------------------------------
\* State: the caller's connection list and target date, what each analysis
\* function returned, and the event lists of run_analysis.
VARIABLES connections, target_date, calls, analysis, extended_sessions,
          loitering, baseline_events, target_events, deduplicated_events, run_pc

\* raised: the functions whose call ended in an exception; target_date_used:
\* the argument a call was given and the date it worked with; stamp and
\* hour_class: a timestamp and what the two hour classifiers made of it.
VARIABLES raised, target_date_used, stamp, hour_class

\* The event source of a run of run_analysis: the events it holds, whether it
\* can be reached at all, the transient failures so far, the calls of
\* get_client_events in order with what each returned, and what the run
\* told its caller.
VARIABLES source_events, source_up, failures, requests, report

\* csv_rows: the rows written by stream_30_days_to_csv; fetch: the locals of
\* a call of get_client_events that pages through the source.
VARIABLES csv_rows, fetch

vars == <<connections, target_date, calls, analysis, extended_sessions,
          loitering, baseline_events, target_events, deduplicated_events, run_pc,
          raised, target_date_used, stamp, hour_class,
          source_events, source_up, failures, requests, report,
          csv_rows, fetch>>

analysis_vars == <<connections, target_date, calls, analysis, extended_sessions,
                   loitering, raised, target_date_used>>
run_vars == <<baseline_events, target_events, deduplicated_events, run_pc>>
hours_vars == <<stamp, hour_class>>
collect_vars == <<source_events, source_up, failures, requests, report>>
io_vars == <<csv_rows, fetch>>
outside_analysis == <<run_vars, hours_vars, collect_vars, io_vars>>
outside_run == <<analysis_vars, hours_vars, collect_vars, io_vars>>

Conn(mac, d, hour_ms, desc) ==
    [timestamp |-> Ts(d, hour_ms), client_mac |-> mac, client_description |-> desc]

\* The investigated date, and the connections a caller may pass: nights around
\* it.  Records without a MAC are left to DirtyUniverse.
TargetDates == {2}

ConnUniverse ==
    { Conn("aa", 1, 18 * HourMs, "laptop"),
      Conn("aa", 2, 3 * HourMs, "laptop"),
      Conn("aa", 2, 9 * HourMs, "aa-day"),
      Conn("aa", 2, 18 * HourMs, "laptop"),
      Conn("aa", 3, 3 * HourMs, "laptop"),
      Conn("aa", 3, 18 * HourMs, "laptop"),
      Conn("bb", 1, 18 * HourMs, "phone"),
      Conn("bb", 2, 18 * HourMs, "phone") }

\* One working day of the target date, around the 8 hour threshold.
DayUniverse ==
    { Conn("aa", 1, 9 * HourMs, "laptop"),
      Conn("aa", 2, 3 * HourMs, "laptop"),
      Conn("aa", 2, 9 * HourMs, "aa-day"),
      Conn("aa", 2, 10 * HourMs, "laptop"),
      Conn("aa", 2, 18 * HourMs, "laptop"),
      Conn("aa", 2, 18 * HourMs + 1, "laptop"),
      Conn("bb", 2, 9 * HourMs, "phone"),
      Conn("bb", 2, 18 * HourMs, "phone"),
      Conn("", 2, 9 * HourMs, ""),
      Conn("", 2, 18 * HourMs, "") }

Event(at, mac, type, desc) ==
    [occurredAt |-> at, clientMac |-> mac, type |-> type, clientDescription |-> desc]

\* Raw provider events: each component of the key varies, and the description
\* tells two deliveries with the same key apart.
EventUniverse ==
    { Event(Ts(1, 18 * HourMs), "aa", "association", "x"),
      Event(Ts(1, 18 * HourMs), "aa", "association", "y"),
      Event(Ts(1, 18 * HourMs), "aa", "disassociation", "x"),
      Event(Ts(1, 18 * HourMs), "bb", "association", "x"),
      Event(Ts(2, 18 * HourMs), "aa", "association", "x") }

NotCalled == <<>>

InitAnalysis ==
    /\ connections = <<>>
    /\ target_date \in TargetDates
    /\ calls = {}
    /\ analysis = NotCalled
    /\ extended_sessions = NotCalled
    /\ loitering = NotCalled
    /\ raised = {}
    /\ target_date_used = [analyze_out_of_hours_patterns |-> NotCalled,
                           analyze_extended_sessions |-> NotCalled]

InitRun ==
    /\ baseline_events = <<>>
    /\ target_events = <<>>
    /\ deduplicated_events = <<>>
    /\ run_pc = "fetch"

\* No timestamp is being classified.
InitHours ==
    /\ stamp = NoTs
    /\ hour_class = NotCalled

\* No event source is attached.
InitSource ==
    /\ source_events = <<>>
    /\ source_up = TRUE
    /\ failures = 0
    /\ requests = <<>>
    /\ report = "none"

\* Nothing is written and no call of get_client_events is under way.
InitIo ==
    /\ csv_rows = <<>>
    /\ fetch = [pc |-> "idle"]

Init == InitAnalysis /\ InitRun /\ InitHours /\ InitSource /\ InitIo

\* The caller assembles the connection list before any analysis is called.
AddConnection ==
    /\ calls = {}
    /\ Len(connections) < MaxConns
    /\ \E conn \in ConnUniverse : connections' = Append(connections, conn)
    /\ UNCHANGED <<target_date, calls, analysis, extended_sessions, loitering,
                   raised, target_date_used>>
    /\ UNCHANGED outside_analysis

AddDayConnection ==
    /\ calls = {}
    /\ Len(connections) < MaxDayConns
    /\ \E conn \in DayUniverse : connections' = Append(connections, conn)
    /\ UNCHANGED <<target_date, calls, analysis, extended_sessions, loitering,
                   raised, target_date_used>>
    /\ UNCHANGED outside_analysis

\* A call that raises returns nothing: the caller's result stays as it was.
CallAnalyzeOutOfHours ==
    /\ IF analyze_out_of_hours_raises(connections, target_date)
       THEN /\ raised' = raised \cup {"analyze_out_of_hours_patterns"}
            /\ UNCHANGED analysis
       ELSE /\ analysis' = analyze_out_of_hours_patterns(connections, target_date)
            /\ UNCHANGED raised
    /\ calls' = calls \cup {"analyze_out_of_hours_patterns"}
    /\ UNCHANGED <<connections, target_date, extended_sessions, loitering,
                   target_date_used>>
    /\ UNCHANGED outside_analysis

CallAnalyzeExtendedSessions ==
    /\ IF analyze_extended_sessions_raises(connections, target_date)
       THEN /\ raised' = raised \cup {"analyze_extended_sessions"}
            /\ UNCHANGED extended_sessions
       ELSE /\ extended_sessions' = analyze_extended_sessions(connections, target_date)
            /\ UNCHANGED raised
    /\ calls' = calls \cup {"analyze_extended_sessions"}
    /\ UNCHANGED <<connections, target_date, analysis, loitering, target_date_used>>
    /\ UNCHANGED outside_analysis

CallDetectLoitering ==
    /\ IF detect_loitering_raises(connections, target_date)
       THEN /\ raised' = raised \cup {"detect_loitering_patterns"}
            /\ UNCHANGED loitering
       ELSE /\ loitering' = detect_loitering_patterns(connections, target_date)
            /\ UNCHANGED raised
    /\ calls' = calls \cup {"detect_loitering_patterns"}
    /\ UNCHANGED <<connections, target_date, analysis, extended_sessions,
                   target_date_used>>
    /\ UNCHANGED outside_analysis

Next == AddConnection \/ CallAnalyzeOutOfHours \/ CallAnalyzeExtendedSessions

Spec == Init /\ [][Next]_vars

\* Bound on the repeated deliveries appended after a run.
MaxRedelivered == 1

\* get_comprehensive_baseline_events returns before the target window is
\* fetched: baseline events arrive first.
FetchBaseline ==
    /\ run_pc = "fetch"
    /\ target_events = <<>>
    /\ Len(baseline_events) < MaxEvents
    /\ \E event \in EventUniverse : baseline_events' = Append(baseline_events, event)
    /\ UNCHANGED <<target_events, deduplicated_events, run_pc>>
    /\ UNCHANGED outside_run

FetchTarget ==
    /\ run_pc = "fetch"
    /\ Len(baseline_events) + Len(target_events) < MaxEvents
    /\ \E event \in EventUniverse : target_events' = Append(target_events, event)
    /\ UNCHANGED <<baseline_events, deduplicated_events, run_pc>>
    /\ UNCHANGED outside_run

Deduplicate ==
    /\ run_pc = "fetch"
    /\ deduplicated_events' = deduplicate(baseline_events, target_events)
    /\ run_pc' = "deduplicated"
    /\ UNCHANGED <<baseline_events, target_events>>
    /\ UNCHANGED outside_run

\* The same run on an input to which an already delivered event was appended
\* (an overlapping fetch window returns it again).
Redeliver ==
    /\ run_pc = "deduplicated"
    /\ Len(baseline_events) + Len(target_events) < MaxEvents + MaxRedelivered
    /\ \E event \in Range(baseline_events \o target_events) :
         /\ target_events' = Append(target_events, event)
         /\ deduplicated_events' = deduplicate(baseline_events, target_events')
    /\ UNCHANGED <<baseline_events, run_pc>>
    /\ UNCHANGED outside_run

NextRun == FetchBaseline \/ FetchTarget \/ Deduplicate \/ Redeliver

SpecRun == Init /\ [][NextRun]_vars

NextDetect == AddDayConnection \/ CallDetectLoitering \/ CallAnalyzeExtendedSessions

SpecDetect == Init /\ [][NextDetect]_vars

\* Bound on the length of a connection list with damaged records.
MaxDirtyConns == 3

DirtyConn(mac, timestamp, desc) ==
    [timestamp |-> timestamp, client_mac |-> mac, client_description |-> desc]

\* Records as the conversion of run_analysis can emit them: occurredAt may be
\* absent or no ISO timestamp, clientMac may be absent or empty.
DirtyUniverse ==
    { Conn("aa", 1, 18 * HourMs, "laptop"),
      Conn("aa", 2, 9 * HourMs, "laptop"),
      Conn("aa", 2, 19 * HourMs, "laptop"),
      DirtyConn("aa", JunkTs(2, 20 * HourMs), "laptop"),
      DirtyConn("aa", NoTs, "laptop"),
      Conn("", 2, 9 * HourMs, "ghost"),
      Conn("", 2, 19 * HourMs, "ghost"),
      Conn(MissingMac, 2, 9 * HourMs, "ghost"),
      Conn(MissingMac, 2, 19 * HourMs, "ghost") }

AddDirtyConnection ==
    /\ calls = {}
    /\ Len(connections) < MaxDirtyConns
    /\ \E conn \in DirtyUniverse : connections' = Append(connections, conn)
    /\ UNCHANGED <<target_date, calls, analysis, extended_sessions, loitering,
                   raised, target_date_used>>
    /\ UNCHANGED outside_analysis

NextDirty ==
    \/ AddDirtyConnection
    \/ CallAnalyzeOutOfHours
    \/ CallDetectLoitering
    \/ CallAnalyzeExtendedSessions

SpecDirty == Init /\ [][NextDirty]_vars

\* Bound on the length of a connection list analysed without a target date.
MaxDefaultConns == 3

\* Connections whose latest may be a daytime event or one without a MAC.
DefaultUniverse ==
    { Conn("bb", 1, 18 * HourMs, "phone"),
      Conn("aa", 2, 18 * HourMs, "laptop"),
      Conn("aa", 3, 9 * HourMs, "laptop"),
      Conn("aa", 3, 19 * HourMs, "laptop"),
      Conn("", 4, 18 * HourMs, "") }

\* The dates datetime.now() may give.
Todays == {2, 5}

AddDefaultConnection ==
    /\ calls = {}
    /\ Len(connections) < MaxDefaultConns
    /\ \E conn \in DefaultUniverse : connections' = Append(connections, conn)
    /\ UNCHANGED <<target_date, calls, analysis, extended_sessions, loitering,
                   raised, target_date_used>>
    /\ UNCHANGED outside_analysis

\* analyze_out_of_hours_patterns(connections) or (connections, target_date).
CallAnalyzeOutOfHoursOptionalDate ==
    /\ \E arg \in {None, Some(target_date)}, today \in Todays :
         LET date == resolve_target_date(connections, arg, today)
         IN IF \/ resolve_target_date_raises(connections, arg)
               \/ analyze_out_of_hours_raises(connections, date)
            THEN /\ raised' = raised \cup {"analyze_out_of_hours_patterns"}
                 /\ UNCHANGED <<analysis, target_date_used>>
            ELSE /\ analysis' = analyze_out_of_hours_patterns(connections, date)
                 /\ target_date_used' =
                      [target_date_used EXCEPT !.analyze_out_of_hours_patterns = <<arg, date>>]
                 /\ UNCHANGED raised
    /\ calls' = calls \cup {"analyze_out_of_hours_patterns"}
    /\ UNCHANGED <<connections, target_date, extended_sessions, loitering>>
    /\ UNCHANGED outside_analysis

\* analyze_extended_sessions(connections) or (connections, target_date).
CallAnalyzeExtendedSessionsOptionalDate ==
    /\ \E arg \in {None, Some(target_date)}, today \in Todays :
         LET date == resolve_target_date(connections, arg, today)
         IN IF \/ resolve_target_date_raises(connections, arg)
               \/ analyze_extended_sessions_raises(connections, date)
            THEN /\ raised' = raised \cup {"analyze_extended_sessions"}
                 /\ UNCHANGED <<extended_sessions, target_date_used>>
            ELSE /\ extended_sessions' = analyze_extended_sessions(connections, date)
                 /\ target_date_used' =
                      [target_date_used EXCEPT !.analyze_extended_sessions = <<arg, date>>]
                 /\ UNCHANGED raised
    /\ calls' = calls \cup {"analyze_extended_sessions"}
    /\ UNCHANGED <<connections, target_date, analysis, loitering>>
    /\ UNCHANGED outside_analysis

NextDefault ==
    \/ AddDefaultConnection
    \/ CallAnalyzeOutOfHoursOptionalDate
    \/ CallAnalyzeExtendedSessionsOptionalDate
    \/ CallDetectLoitering

SpecDefault == Init /\ [][NextDefault]_vars

\* Bound on the requests that fail while the source can be reached.
MaxFailures == 2

\* The investigation date of a run: seven baseline days lie before it.
InvestigationDates == {BaselineDays + 1}

\* What the event source may hold, oldest first: nothing; events at the
\* start of the first evening window, at the end of a morning window, in the
\* daytime, in the last baseline night and in the target night; a device that
\* arrives in the daytime of the investigation date and stays into the night.
SourceChoices ==
    LET first_evening == Event(Ts(1, 18 * HourMs), "aa", "association", "laptop")
        morning_end == Event(Ts(2, 6 * HourMs - 1), "aa", "association", "laptop")
        daytime == Event(Ts(5, 12 * HourMs), "aa", "association", "laptop")
        last_evening == Event(Ts(7, 23 * HourMs), "bb", "association", "phone")
        last_morning == Event(Ts(8, 3 * HourMs), "bb", "disassociation", "phone")
        target_night == Event(Ts(8, 19 * HourMs), "aa", "association", "laptop")
        target_day == Event(Ts(8, 9 * HourMs), "aa", "association", "laptop")
    IN { <<>>,
         <<last_morning, target_day, target_night>>,
         <<daytime>>,
         <<first_evening, last_evening, target_night>>,
         <<first_evening, morning_end, daytime, last_evening, last_morning,
           target_night>> }

InitCollect ==
    /\ connections = <<>>
    /\ target_date \in InvestigationDates
    /\ calls = {}
    /\ analysis = NotCalled
    /\ extended_sessions = NotCalled
    /\ loitering = NotCalled
    /\ raised = {}
    /\ target_date_used = [analyze_out_of_hours_patterns |-> NotCalled,
                           analyze_extended_sessions |-> NotCalled]
    /\ baseline_events = <<>>
    /\ target_events = <<>>
    /\ deduplicated_events = <<>>
    /\ run_pc = "connectivity"
    /\ InitHours /\ InitIo
    /\ source_events \in SourceChoices
    /\ source_up \in BOOLEAN
    /\ failures = 0
    /\ requests = <<>>
    /\ report = "none"

\* A request to the source succeeds only if the source can be reached; it
\* raises if the source cannot be reached or on a transient failure.
RequestOutcome(ok) ==
    IF ok THEN source_up ELSE ~source_up \/ failures < MaxFailures

failures_after(ok) == IF ~ok /\ source_up THEN failures + 1 ELSE failures

\* test_network_connectivity and the test of its result: a failed request
\* gives {}, and a count of 0 skips the network, which leaves all_connections
\* empty and ends the run with 'No connections found'.
TestConnectivity ==
    /\ run_pc = "connectivity"
    /\ \E ok \in BOOLEAN :
         /\ RequestOutcome(ok)
         /\ failures' = failures_after(ok)
         /\ LET recent_events_count == IF ok THEN Len(source_events) ELSE 0
            IN IF recent_events_count = 0
               THEN run_pc' = "done" /\ report' = "no_connections"
               ELSE run_pc' = "baseline" /\ UNCHANGED report
    /\ UNCHANGED <<baseline_events, target_events, deduplicated_events>>
    /\ UNCHANGED <<source_events, source_up, requests>>
    /\ UNCHANGED <<analysis_vars, hours_vars, io_vars>>

\* One call of get_client_events by get_comprehensive_baseline_events.
FetchBaselineWindow ==
    /\ run_pc = "baseline"
    /\ Len(requests) < 2 * BaselineDays
    /\ \E ok \in BOOLEAN :
         LET k == Len(requests) + 1
             window == baseline_window(target_date, k)
             events == IF ok THEN get_client_events(source_events, window.start_time,
                                                    window.end_time)
                       ELSE <<>>
         IN /\ RequestOutcome(ok)
            /\ failures' = failures_after(ok)
            /\ requests' = Append(requests,
                                  [window |-> window, ok |-> ok, returned |-> events])
            /\ IF ~ok /\ fetch_failure_propagates
               THEN /\ raised' = raised \cup {"run_analysis"}
                    /\ run_pc' = "done"
                    /\ report' = "raised"
                    /\ UNCHANGED baseline_events
               ELSE /\ baseline_events' = baseline_events \o events
                    /\ run_pc' = IF k = 2 * BaselineDays THEN "target" ELSE "baseline"
                    /\ UNCHANGED <<raised, report>>
    /\ UNCHANGED <<target_events, deduplicated_events, source_events, source_up>>
    /\ UNCHANGED <<connections, target_date, calls, analysis, extended_sessions,
                   loitering, target_date_used>>
    /\ UNCHANGED <<hours_vars, io_vars>>

\* The call of get_client_events for the investigation period.
FetchTargetWindow ==
    /\ run_pc = "target"
    /\ \E ok \in BOOLEAN :
         LET window == target_window(target_date)
             events == IF ok THEN get_client_events(source_events, window.start_time,
                                                    window.end_time)
                       ELSE <<>>
         IN /\ RequestOutcome(ok)
            /\ failures' = failures_after(ok)
            /\ requests' = Append(requests,
                                  [window |-> window, ok |-> ok, returned |-> events])
            /\ IF ~ok /\ fetch_failure_propagates
               THEN /\ raised' = raised \cup {"run_analysis"}
                    /\ run_pc' = "done"
                    /\ report' = "raised"
                    /\ UNCHANGED target_events
               ELSE /\ target_events' = events
                    /\ run_pc' = "process"
                    /\ UNCHANGED <<raised, report>>
    /\ UNCHANGED <<baseline_events, deduplicated_events, source_events, source_up>>
    /\ UNCHANGED <<connections, target_date, calls, analysis, extended_sessions,
                   loitering, target_date_used>>
    /\ UNCHANGED <<hours_vars, io_vars>>

\* Deduplication, conversion, and the analysis of a non-empty connection list.
ProcessEvents ==
    /\ run_pc = "process"
    /\ deduplicated_events' = deduplicate(baseline_events, target_events)
    /\ connections' = to_connections(deduplicated_events')
    /\ IF connections' = <<>>
       THEN /\ report' = "no_connections"
            /\ UNCHANGED <<calls, analysis, raised>>
       ELSE /\ calls' = calls \cup {"analyze_out_of_hours_patterns"}
            /\ IF analyze_out_of_hours_raises(connections', target_date)
               THEN /\ raised' = raised \cup {"analyze_out_of_hours_patterns",
                                              "run_analysis"}
                    /\ report' = "raised"
                    /\ UNCHANGED analysis
               ELSE /\ analysis' = analyze_out_of_hours_patterns(connections',
                                                                target_date)
                    /\ report' = "analysed"
                    /\ UNCHANGED raised
    /\ run_pc' = "done"
    /\ UNCHANGED <<baseline_events, target_events>>
    /\ UNCHANGED <<target_date, extended_sessions, loitering, target_date_used>>
    /\ UNCHANGED <<source_events, source_up, failures, requests>>
    /\ UNCHANGED <<hours_vars, io_vars>>

NextCollect ==
    \/ TestConnectivity
    \/ FetchBaselineWindow
    \/ FetchTargetWindow
    \/ ProcessEvents

SpecCollect == InitCollect /\ [][NextCollect]_vars

\* Bound on the length of a connection list that is analysed in two orders.
MaxOrderConns == 3

\* Events of one device that differ in their description (the provider
\* leaves clientDescription out of some events), and a second device.
OrderUniverse ==
    { Conn("aa", 1, 18 * HourMs, "laptop"),
      Conn("aa", 2, 9 * HourMs, "laptop"),
      Conn("aa", 2, 18 * HourMs, "laptop"),
      Conn("aa", 2, 19 * HourMs, ""),
      Conn("bb", 2, 18 * HourMs, "phone") }

AddOrderConnection ==
    /\ calls = {}
    /\ Len(connections) < MaxOrderConns
    /\ \E conn \in OrderUniverse : connections' = Append(connections, conn)
    /\ UNCHANGED <<target_date, calls, analysis, extended_sessions, loitering,
                   raised, target_date_used>>
    /\ UNCHANGED outside_analysis

\* The same events delivered in another order (two of them exchanged), and
\* both functions run again on the reordered list.
AnalyzeReordered ==
    /\ {"analyze_out_of_hours_patterns", "detect_loitering_patterns"} \subseteq calls
    /\ raised = {}
    /\ \E i, j \in 1..Len(connections) :
         /\ i < j
         /\ connections[i] # connections[j]
         /\ connections' = [connections EXCEPT ![i] = connections[j],
                                                ![j] = connections[i]]
    /\ ~analyze_out_of_hours_raises(connections', target_date)
    /\ analysis' = analyze_out_of_hours_patterns(connections', target_date)
    /\ loitering' = detect_loitering_patterns(connections', target_date)
    /\ UNCHANGED <<target_date, calls, extended_sessions, raised, target_date_used>>
    /\ UNCHANGED outside_analysis

NextOrder ==
    \/ AddOrderConnection
    \/ CallAnalyzeOutOfHours
    \/ CallDetectLoitering
    \/ AnalyzeReordered

SpecOrder == Init /\ [][NextOrder]_vars

\* The three functions with what they leave of the caller's list.
AnalyzeOutOfHoursOnList ==
    /\ ~analyze_out_of_hours_raises(connections, target_date)
    /\ analysis' = analyze_out_of_hours_patterns(connections, target_date)
    /\ connections' = input_after_analysis(connections, target_date)
    /\ calls' = calls \cup {"analyze_out_of_hours_patterns"}
    /\ UNCHANGED <<target_date, extended_sessions, loitering, raised, target_date_used>>
    /\ UNCHANGED outside_analysis

DetectLoiteringOnList ==
    /\ ~detect_loitering_raises(connections, target_date)
    /\ loitering' = detect_loitering_patterns(connections, target_date)
    /\ connections' = input_after_detection(connections, target_date)
    /\ calls' = calls \cup {"detect_loitering_patterns"}
    /\ UNCHANGED <<target_date, analysis, extended_sessions, raised, target_date_used>>
    /\ UNCHANGED outside_analysis

ExtendedSessionsOnList ==
    /\ ~analyze_extended_sessions_raises(connections, target_date)
    /\ extended_sessions' = analyze_extended_sessions(connections, target_date)
    /\ connections' = input_after_detection(connections, target_date)
    /\ calls' = calls \cup {"analyze_extended_sessions"}
    /\ UNCHANGED <<target_date, analysis, loitering, raised, target_date_used>>
    /\ UNCHANGED outside_analysis

NextEffects ==
    \/ AddDayConnection
    \/ AnalyzeOutOfHoursOnList
    \/ DetectLoiteringOnList
    \/ ExtendedSessionsOnList

SpecEffects == Init /\ [][NextEffects]_vars

\* Bound on the events fetched before they are converted or streamed.
MaxTypedEvents == 3

\* Provider events of every kind: the three connection types, two deliveries
\* of one key, another wireless event type, and an event without a type.
TypedUniverse ==
    { Event(Ts(2, 18 * HourMs), "aa", "association", "x"),
      Event(Ts(2, 18 * HourMs), "aa", "association", "y"),
      Event(Ts(2, 18 * HourMs), "aa", "wpa_auth", "x"),
      Event(Ts(2, 18 * HourMs), "aa", "disassociation", "x"),
      Event(Ts(2, 18 * HourMs), "aa", "wpa_deauth", "x"),
      Event(Ts(2, 18 * HourMs), "aa", MissingType, "x") }

FetchTypedEvent ==
    /\ run_pc = "fetch"
    /\ Len(target_events) < MaxTypedEvents
    /\ \E event \in TypedUniverse : target_events' = Append(target_events, event)
    /\ UNCHANGED <<baseline_events, deduplicated_events, run_pc>>
    /\ UNCHANGED outside_run

\* run_analysis from the deduplication to the end of the conversion loop.
ConvertEvents ==
    /\ run_pc = "fetch"
    /\ deduplicated_events' = deduplicate(baseline_events, target_events)
    /\ connections' = to_connections(deduplicated_events')
    /\ run_pc' = "converted"
    /\ UNCHANGED <<baseline_events, target_events>>
    /\ UNCHANGED <<target_date, calls, analysis, extended_sessions, loitering,
                   raised, target_date_used>>
    /\ UNCHANGED <<hours_vars, collect_vars, fetch, csv_rows>>

\* stream_30_days_to_csv on the fetched events.
StreamToCsv ==
    /\ run_pc = "fetch"
    /\ csv_rows' = csv_rows \o stream_rows(target_events)
    /\ run_pc' = "streamed"
    /\ UNCHANGED <<baseline_events, target_events, deduplicated_events>>
    /\ UNCHANGED <<analysis_vars, hours_vars, collect_vars, fetch>>

NextConvert == FetchTypedEvent \/ ConvertEvents \/ StreamToCsv

SpecConvert == Init /\ [][NextConvert]_vars

\* per_page, scaled down; and the cap on the pages of one call.
PerPage == 2
MaxPages == 3

\* What the source holds around the evening window of day 2: an event before
\* the window, two inside it, and one stamped at the end of the window.
PageSource ==
    { Event(Ts(2, 17 * HourMs), "aa", "association", "x"),
      Event(Ts(2, 18 * HourMs), "aa", "association", "x"),
      Event(Ts(2, 20 * HourMs), "aa", "association", "x"),
      Event(Ts(2, 24 * HourMs - 1), "aa", "association", "x") }

\* The answers of the source to one request: up to per_page of its events,
\* each at most once, in any order and whatever the cursor.
Pages ==
    UNION {{page \in [1..n -> PageSource] :
               \A i, j \in 1..n : i # j => page[i] # page[j]} : n \in 0..PerPage}

\* get_client_events is called with an end_time (bounded) or without one.
StartFetch ==
    /\ fetch.pc = "idle"
    /\ \E bounded \in BOOLEAN :
         fetch' = [pc |-> "loop",
                   bounded |-> bounded,
                   start_time |-> Ts(2, 18 * HourMs),
                   end_time |-> IF bounded THEN Ts(2, 24 * HourMs - 1) ELSE NoTs,
                   given_start |-> Ts(2, 18 * HourMs),
                   given_end |-> IF bounded THEN Ts(2, 24 * HourMs - 1) ELSE NoTs,
                   all_events |-> <<>>,
                   page |-> 1,
                   result |-> <<>>]
    /\ UNCHANGED <<analysis_vars, run_vars, hours_vars, collect_vars, csv_rows>>

\* One turn of the 'while True' loop: a page is requested, filtered in
\* bounded mode, and either ends the loop or moves the cursor.
FetchPage ==
    /\ fetch.pc = "loop"
    /\ fetch.page <= MaxPages
    /\ \E answer \in Pages :
         LET page_events == IF fetch.bounded
                            THEN window_filter(answer, fetch.start_time, fetch.end_time)
                            ELSE answer
             all_events == fetch.all_events \o page_events
             last_event_time == page_events[Len(page_events)].occurredAt
         IN IF page_events = <<>>
            THEN fetch' = [fetch EXCEPT !.pc = "returned", !.result = fetch.all_events]
            ELSE IF Len(page_events) < PerPage
            THEN fetch' = [fetch EXCEPT !.pc = "returned",
                                        !.all_events = all_events,
                                        !.result = all_events]
            ELSE IF fetch.bounded
            THEN fetch' = [fetch EXCEPT !.all_events = all_events,
                                        !.end_time = last_event_time,
                                        !.page = @ + 1]
            ELSE fetch' = [fetch EXCEPT !.all_events = all_events,
                                        !.start_time = last_event_time,
                                        !.page = @ + 1]
    /\ UNCHANGED <<analysis_vars, run_vars, hours_vars, collect_vars, csv_rows>>

\* The request raises: 'except Exception' returns an empty list.
FetchPageFails ==
    /\ fetch.pc = "loop"
    /\ fetch.page <= MaxPages
    /\ fetch' = [fetch EXCEPT !.pc = "returned", !.result = <<>>]
    /\ UNCHANGED <<analysis_vars, run_vars, hours_vars, collect_vars, csv_rows>>

NextPages == StartFetch \/ FetchPage \/ FetchPageFails

SpecPages == Init /\ [][NextPages]_vars

\* The timestamps handed to the hour classifiers: the first and the last
\* millisecond of every hour, the same followed by unparsable text, and a
\* missing value.
HourStamps ==
    {Ts(1, h * HourMs) : h \in 0..23}
        \cup {Ts(1, h * HourMs + HourMs - 1) : h \in 0..23}
        \cup {JunkTs(1, h * HourMs) : h \in 0..23}
        \cup {JunkTs(1, h * HourMs + HourMs - 1) : h \in 0..23}
        \cup {NoTs}

InitClassify ==
    /\ InitAnalysis /\ InitRun /\ InitSource /\ InitIo
    /\ stamp \in HourStamps
    /\ hour_class = NotCalled

\* Both classifiers are called on the same timestamp.
ClassifyHours ==
    /\ calls = {}
    /\ hour_class' = [out_of_hours |-> is_out_of_hours(stamp),
                      business_hours |-> is_business_hours(stamp),
                      raised |-> classifier_raises(stamp)]
    /\ calls' = {"is_out_of_hours", "is_business_hours"}
    /\ UNCHANGED <<connections, target_date, analysis, extended_sessions, loitering,
                   raised, target_date_used, stamp>>
    /\ UNCHANGED <<run_vars, collect_vars, io_vars>>

NextHours == ClassifyHours

SpecHours == InitClassify /\ [][NextHours]_vars

---------------------------------------------------------------------------
\* What the claims speak of, stated on the caller's connection list.
Analysed == "analyze_out_of_hours_patterns" \in calls
ExtendedCalled == "analyze_extended_sessions" \in calls
LoiteringCalled == "detect_loitering_patterns" \in calls

Macs == {connections[i].client_mac : i \in 1..Len(connections)} \ {""}

OutOfHoursOf(mac) ==
    {i \in 1..Len(connections) :
        /\ connections[i].client_mac = mac
        /\ (HourOf(connections[i].timestamp) >= 18 \/ HourOf(connections[i].timestamp) < 6)}

TargetOf(mac) ==
    {i \in OutOfHoursOf(mac) :
        \/ connections[i].timestamp.date = target_date
             /\ HourOf(connections[i].timestamp) >= 18
        \/ connections[i].timestamp.date = target_date + 1
             /\ HourOf(connections[i].timestamp) < 6}

BaselineOf(mac) == OutOfHoursOf(mac) \ TargetOf(mac)

DaysSeenOf(mac) == Cardinality({connections[i].timestamp.date : i \in OutOfHoursOf(mac)})

OnTargetDateOf(mac) ==
    {i \in 1..Len(connections) :
        connections[i].client_mac = mac /\ connections[i].timestamp.date = target_date}

IsEarliest(i, idx) == \A k \in idx : TsLeq(connections[i].timestamp, connections[k].timestamp)
IsLatest(j, idx) == \A k \in idx : TsLeq(connections[k].timestamp, connections[j].timestamp)

\* Section 4.5: at least 2 connections on D, first in business hours, last at
\* 18:00 or later, more than 8 hours apart.
LoiteringPredicate(mac) ==
    LET idx == OnTargetDateOf(mac)
    IN /\ Cardinality(idx) >= 2
       /\ \E i, j \in idx :
            /\ IsEarliest(i, idx) /\ IsLatest(j, idx)
            /\ HourOf(connections[i].timestamp) \in 6..17
            /\ HourOf(connections[j].timestamp) >= 18
            /\ connections[j].timestamp.ms - connections[i].timestamp.ms > 8 * 3600 * 1000

\* Section 4.6: the same without the duration.
ExtendedPredicate(mac) ==
    LET idx == OnTargetDateOf(mac)
    IN /\ Cardinality(idx) >= 2
       /\ \E i, j \in idx :
            /\ IsEarliest(i, idx) /\ IsLatest(j, idx)
            /\ HourOf(connections[i].timestamp) \in 6..17
            /\ HourOf(connections[j].timestamp) >= 18

ClassBuckets ==
    {"target_date_devices", "baseline_regular_devices", "anomalous_devices",
     "baseline_only_devices"}

FiveBuckets == ClassBuckets \cup {"loitering_devices"}

\* The positions of mac's records in a list of records.
RecordsOf(list, mac) == {i \in 1..Len(list) : list[i].mac = mac}

InBucket(bucket, mac) == RecordsOf(analysis[bucket], mac) # {}

\* The records of mac in the four classification buckets.
ProfilesOf(mac) ==
    {p \in UNION {Range(analysis[b]) : b \in ClassBuckets} : p.mac = mac}

Flagged(mac) == RecordsOf(analysis.loitering_devices, mac) # {}

\* C1: an out-of-hours event of a device counts as a target connection iff it is
\* on D at hour >= 18 or on D+1 at hour < 6, every other out-of-hours event of
\* the device counts as a baseline connection, and the two counts add up to the
\* device's out-of-hours events.
NightCycleMembership ==
    Analysed =>
        \A mac \in Macs :
            OutOfHoursOf(mac) # {} =>
                /\ ProfilesOf(mac) # {}
                /\ \A p \in ProfilesOf(mac) :
                     /\ p.target_date_connections = Cardinality(TargetOf(mac))
                     /\ p.baseline_connections = Cardinality(BaselineOf(mac))
                     /\ p.target_date_connections + p.baseline_connections
                          = Cardinality(OutOfHoursOf(mac))

\* A device with a baseline event on D before 06:00, one dated after the target
\* night, and a target connection on the morning of D+1.
NightCycleWitness ==
    /\ Analysed
    /\ \E mac \in Macs :
         /\ \E i \in BaselineOf(mac) : connections[i].timestamp.date = target_date
         /\ \E i \in BaselineOf(mac) : connections[i].timestamp.date = target_date + 1
         /\ \E i \in TargetOf(mac) : connections[i].timestamp.date = target_date + 1
         /\ \E p \in ProfilesOf(mac) :
              p.target_date_connections = 1 /\ p.baseline_connections = 2

\* The ordered policy of section 4.4, step 4.
PolicyLevel(flag, baseline_count, days_seen) ==
    IF flag THEN "LOITERING_SUSPICIOUS"
    ELSE IF baseline_count = 0 THEN "ANOMALOUS_SUSPICIOUS"
    ELSE IF baseline_count >= 1 /\ days_seen >= 2 THEN "BASELINE_REGULAR"
    ELSE IF baseline_count >= 3 THEN "BASELINE_REGULAR"
    ELSE "ANOMALOUS_SUSPICIOUS"

\* C2: every MAC with target_count > 0 has the risk_level of the ordered,
\* first-match-wins policy (loitering, zero baseline, multi-day, >= 3 baseline,
\* else anomalous).
OrderedPolicy ==
    Analysed =>
        \A mac \in Macs :
            TargetOf(mac) # {} =>
                /\ InBucket("target_date_devices", mac)
                /\ \A p \in ProfilesOf(mac) :
                     p.risk_level =
                        Some(PolicyLevel(Flagged(mac), Cardinality(BaselineOf(mac)),
                                         DaysSeenOf(mac)))

\* A device with 3 baseline connections, all on one day, and no loitering flag
\* is BASELINE_REGULAR.
OrderedPolicyWitness ==
    /\ Analysed
    /\ \E mac \in Macs :
         /\ TargetOf(mac) # {} /\ ~Flagged(mac)
         /\ DaysSeenOf(mac) = 1 /\ Cardinality(BaselineOf(mac)) >= 3
         /\ \E p \in ProfilesOf(mac) : p.risk_level = Some("BASELINE_REGULAR")

\* C3: every MAC that satisfies the loitering predicate gets a profile, and its
\* profile is LOITERING_SUSPICIOUS whatever its baseline count and days seen.
LoiteringPrecedence ==
    Analysed =>
        \A mac \in Macs :
            LoiteringPredicate(mac) =>
                /\ Flagged(mac)
                /\ InBucket("target_date_devices", mac)
                /\ \A p \in ProfilesOf(mac) : p.risk_level = Some("LOITERING_SUSPICIOUS")

\* A loitering device that also has baseline connections on two other days.
LoiteringPrecedenceWitness ==
    /\ Analysed
    /\ \E mac \in Macs :
         /\ LoiteringPredicate(mac)
         /\ Cardinality(BaselineOf(mac)) >= 1 /\ DaysSeenOf(mac) >= 2
         /\ \E p \in ProfilesOf(mac) : p.risk_level = Some("LOITERING_SUSPICIOUS")

\* C4 as claimed: every MAC with baseline_count = 0 and target_count > 0 is
\* ANOMALOUS_SUSPICIOUS.
ZeroBaselineAlwaysAnomalous ==
    Analysed =>
        \A mac \in Macs :
            (TargetOf(mac) # {} /\ BaselineOf(mac) = {}) =>
                \A p \in ProfilesOf(mac) : p.risk_level = Some("ANOMALOUS_SUSPICIOUS")

\* C4: every MAC with baseline_count = 0, target_count > 0 and no loitering
\* flag is ANOMALOUS_SUSPICIOUS.
ZeroBaselineAnomaly ==
    Analysed =>
        \A mac \in Macs :
            (TargetOf(mac) # {} /\ BaselineOf(mac) = {} /\ ~Flagged(mac)) =>
                /\ InBucket("anomalous_devices", mac)
                /\ \A p \in ProfilesOf(mac) : p.risk_level = Some("ANOMALOUS_SUSPICIOUS")

\* A device seen on the evening of D and the morning of D+1 only (two dates,
\* no baseline, not loitering).
ZeroBaselineWitness ==
    /\ Analysed
    /\ \E mac \in Macs :
         /\ TargetOf(mac) # {} /\ BaselineOf(mac) = {} /\ ~Flagged(mac)
         /\ DaysSeenOf(mac) = 2
         /\ \E p \in ProfilesOf(mac) : p.risk_level = Some("ANOMALOUS_SUSPICIOUS")

\* C5: every MAC with target_count > 0 is in target_date_devices and in exactly
\* one of anomalous_devices / baseline_regular_devices: anomalous_devices when
\* labelled ANOMALOUS_SUSPICIOUS, baseline_regular_devices when labelled
\* BASELINE_REGULAR; it is never in baseline_only_devices.
TargetBuckets ==
    Analysed =>
        \A mac \in Macs :
            TargetOf(mac) # {} =>
                LET in_target == RecordsOf(analysis.target_date_devices, mac)
                    in_anomalous == RecordsOf(analysis.anomalous_devices, mac)
                    in_regular == RecordsOf(analysis.baseline_regular_devices, mac)
                IN /\ Cardinality(in_target) = 1
                   /\ Cardinality(in_anomalous) + Cardinality(in_regular) = 1
                   /\ \A i \in in_target :
                        LET level == analysis.target_date_devices[i].risk_level
                        IN /\ level = Some("ANOMALOUS_SUSPICIOUS") => in_anomalous # {}
                           /\ level = Some("BASELINE_REGULAR") => in_regular # {}
                   /\ ~InBucket("baseline_only_devices", mac)

\* One device labelled BASELINE_REGULAR and another labelled
\* ANOMALOUS_SUSPICIOUS in the same run.
TargetBucketsWitness ==
    /\ Analysed
    /\ \E m1, m2 \in Macs :
         /\ TargetOf(m1) # {} /\ TargetOf(m2) # {}
         /\ \E i \in RecordsOf(analysis.baseline_regular_devices, m1) :
              analysis.baseline_regular_devices[i].risk_level = Some("BASELINE_REGULAR")
         /\ \E i \in RecordsOf(analysis.anomalous_devices, m2) :
              analysis.anomalous_devices[i].risk_level = Some("ANOMALOUS_SUSPICIOUS")

\* C6: every MAC with target_count = 0 and baseline_count > 0 has a
\* BASELINE_ONLY record in baseline_only_devices; a second record, labelled
\* BASELINE_REGULAR, is in baseline_regular_devices iff (baseline_count >= 1
\* and days_seen >= 2) or baseline_count >= 3, and the first record stays
\* BASELINE_ONLY.
BaselineOnlyDuplicate ==
    Analysed =>
        \A mac \in Macs :
            (TargetOf(mac) = {} /\ BaselineOf(mac) # {}) =>
                LET in_only == RecordsOf(analysis.baseline_only_devices, mac)
                    in_regular == RecordsOf(analysis.baseline_regular_devices, mac)
                    regular == \/ Cardinality(BaselineOf(mac)) >= 1 /\ DaysSeenOf(mac) >= 2
                               \/ Cardinality(BaselineOf(mac)) >= 3
                IN /\ Cardinality(in_only) = 1
                   /\ \A i \in in_only :
                        analysis.baseline_only_devices[i].risk_level = Some("BASELINE_ONLY")
                   /\ Cardinality(in_regular) = (IF regular THEN 1 ELSE 0)
                   /\ \A i \in in_regular :
                        analysis.baseline_regular_devices[i].risk_level
                            = Some("BASELINE_REGULAR")

\* A baseline-only device seen on one day with 3 connections: duplicated.
BaselineOnlyDuplicateWitness ==
    /\ Analysed
    /\ \E mac \in Macs :
         /\ TargetOf(mac) = {} /\ DaysSeenOf(mac) = 1
         /\ Cardinality(BaselineOf(mac)) >= 3
         /\ InBucket("baseline_only_devices", mac)
         /\ InBucket("baseline_regular_devices", mac)

LoiteringIff ==
    LoiteringCalled =>
        /\ \A mac \in Macs : RecordsOf(loitering, mac) # {} <=> LoiteringPredicate(mac)
        /\ \A i \in 1..Len(loitering) : loitering[i].mac \in Macs

\* A device flagged for a stay of 8 hours and one millisecond.
LoiteringIffWitness ==
    /\ LoiteringCalled
    /\ \E i \in 1..Len(loitering) :
         loitering[i].last_target_connection.ms - loitering[i].first_target_connection.ms
            = 8 * 3600 * 1000 + 1

\* C8: analyze_extended_sessions flags a MAC iff it has at least 2 connections
\* on the target date, the earliest in business hours and the latest at hour
\* >= 18, however close together.
ExtendedIff ==
    ExtendedCalled =>
        /\ \A mac \in Macs :
             RecordsOf(extended_sessions, mac) # {} <=> ExtendedPredicate(mac)
        /\ \A i \in 1..Len(extended_sessions) : extended_sessions[i].mac \in Macs

\* A device flagged for a session of exactly 8 hours, which is not loitering.
ExtendedIffWitness ==
    /\ ExtendedCalled
    /\ \E i \in 1..Len(extended_sessions) :
         /\ extended_sessions[i].last_connection.ms
              - extended_sessions[i].first_connection.ms = 8 * 3600 * 1000
         /\ ~LoiteringPredicate(extended_sessions[i].mac)

AllEvents == baseline_events \o target_events

\* The positions of AllEvents that hold the first event of their key.
FirstSeen ==
    {i \in 1..Len(AllEvents) :
        \A j \in 1..(i - 1) :
            \/ AllEvents[j].occurredAt # AllEvents[i].occurredAt
            \/ AllEvents[j].clientMac # AllEvents[i].clientMac
            \/ AllEvents[j].type # AllEvents[i].type}

NthFirstSeen(n) == CHOOSE i \in FirstSeen : Cardinality({j \in FirstSeen : j <= i}) = n

\* C10: the deduplication keeps, for every key (occurredAt, clientMac, type),
\* exactly the first event in arrival order, in arrival order, and appending
\* already delivered events to the input leaves the output unchanged.
DedupFirstSeen ==
    /\ [](run_pc = "deduplicated" =>
            /\ Len(deduplicated_events) = Cardinality(FirstSeen)
            /\ \A n \in 1..Len(deduplicated_events) :
                 deduplicated_events[n] = AllEvents[NthFirstSeen(n)])
    /\ [][(run_pc = "deduplicated" /\ run_pc' = "deduplicated") =>
            deduplicated_events' = deduplicated_events]_vars

\* Two survivors, and a dropped event that differs from the kept one of its
\* key in its description.
DedupFirstSeenWitness ==
    /\ run_pc = "deduplicated"
    /\ Len(deduplicated_events) = 2
    /\ \E i \in 1..Len(AllEvents) :
         /\ i \notin FirstSeen
         /\ AllEvents[i] \notin Range(deduplicated_events)
    /\ Len(AllEvents) > MaxEvents

---------------------------------------------------------------------------
Classified == "is_out_of_hours" \in calls

\* C11: for every hour of day 0..23 exactly one of is_out_of_hours and
\* is_business_hours is True: out of hours iff the hour is >= 18 or < 6,
\* business hours iff 6 <= hour < 18.
HourPartition ==
    (Classified /\ stamp.form = "iso") =>
        LET hour == stamp.ms \div (SecondsPerHour * 1000)
        IN /\ hour \in 0..23
           /\ hour_class.out_of_hours # hour_class.business_hours
           /\ hour_class.out_of_hours <=> (hour >= 18 \/ hour < 6)
           /\ hour_class.business_hours <=> (6 <= hour /\ hour < 18)

HourPartitionWitness ==
    /\ Classified
    /\ stamp = Ts(1, 18 * HourMs)
    /\ hour_class.out_of_hours /\ ~hour_class.business_hours

\* C12: for a timestamp that cannot be parsed (a malformed string or a
\* missing value) both classifiers return False and neither raises.
UnparsableIsNeither ==
    (Classified /\ stamp.form \in {"junk", "none"}) =>
        /\ ~hour_class.raised
        /\ ~hour_class.out_of_hours
        /\ ~hour_class.business_hours

UnparsableIsNeitherWitness ==
    /\ Classified
    /\ stamp = NoTs
    /\ hour_class = [out_of_hours |-> FALSE, business_hours |-> FALSE, raised |-> FALSE]

---------------------------------------------------------------------------
Malformed(i) == connections[i].timestamp.form # "iso"

PresentMacs ==
    {connections[i].client_mac : i \in 1..Len(connections)} \ {"", MissingMac}

\* The well-formed out-of-hours events of a device: in the target night, others.
WellFormedTargetOf(mac) == {i \in TargetOf(mac) : ~Malformed(i)}
WellFormedBaselineOf(mac) == {i \in BaselineOf(mac) : ~Malformed(i)}

\* C13: on a connection list with malformed or unparsable timestamps the
\* analysis (with its call of the loitering detector) does not raise, no
\* malformed event is counted in a device's target or baseline connections,
\* and no loitering flag starts or ends at a malformed event.
MalformedTolerated ==
    (Analysed /\ \E i \in 1..Len(connections) : Malformed(i)) =>
        /\ "analyze_out_of_hours_patterns" \notin raised
        /\ \A mac \in PresentMacs : \A p \in ProfilesOf(mac) :
              /\ p.target_date_connections = Cardinality(WellFormedTargetOf(mac))
              /\ p.baseline_connections = Cardinality(WellFormedBaselineOf(mac))
        /\ \A k \in 1..Len(analysis.loitering_devices) :
              /\ analysis.loitering_devices[k].first_target_connection.form = "iso"
              /\ analysis.loitering_devices[k].last_target_connection.form = "iso"

MacsIn(list) == {list[k].mac : k \in 1..Len(list)}

\* C14: an event whose client_mac is empty or missing enters no per-device
\* aggregate and no per-MAC group of the three functions, no bucket holds a
\* record with an empty or missing mac, and such an event causes no
\* exception (a call raises only on a malformed timestamp).
EmptyMacExcluded ==
    /\ raised # {} => \E i \in 1..Len(connections) : Malformed(i)
    /\ (Analysed /\ "analyze_out_of_hours_patterns" \notin raised) =>
          /\ \A b \in FiveBuckets : MacsIn(analysis[b]) \subseteq PresentMacs
          /\ \A mac \in PresentMacs : \A p \in ProfilesOf(mac) :
                /\ p.target_date_connections = Cardinality(WellFormedTargetOf(mac))
                /\ p.baseline_connections = Cardinality(WellFormedBaselineOf(mac))
    /\ (LoiteringCalled /\ "detect_loitering_patterns" \notin raised) =>
          MacsIn(loitering) \subseteq PresentMacs
    /\ (ExtendedCalled /\ "analyze_extended_sessions" \notin raised) =>
          MacsIn(extended_sessions) \subseteq PresentMacs

\* Both the empty and the missing mac have a full working day on the target
\* date, all three functions ran, and none raised.
EmptyMacExcludedWitness ==
    /\ Analysed /\ LoiteringCalled /\ ExtendedCalled
    /\ raised = {}
    /\ \E i, j \in 1..Len(connections) :
         /\ connections[i].client_mac = ""
         /\ connections[j].client_mac = ""
         /\ HourOf(connections[i].timestamp) = 9
         /\ HourOf(connections[j].timestamp) = 19
    /\ \E i \in 1..Len(connections) : connections[i].client_mac = "aa"
    /\ \A b \in FiveBuckets : MacsIn(analysis[b]) \subseteq {"aa"}
    /\ loitering = <<>> /\ extended_sessions = <<>>

---------------------------------------------------------------------------
DateFunctions == {"analyze_out_of_hours_patterns", "analyze_extended_sessions"}

\* C15: with an empty connection list analyze_out_of_hours_patterns (with or
\* without a target date), detect_loitering_patterns and
\* analyze_extended_sessions return without raising, and the five buckets and
\* the extended-session list are empty.
EmptyInputEmptyResult ==
    connections = <<>> =>
        /\ raised = {}
        /\ Analysed => \A b \in FiveBuckets : analysis[b] = <<>>
        /\ ExtendedCalled => extended_sessions = <<>>
        /\ LoiteringCalled => loitering = <<>>

\* All three ran on the empty list, the analysis without a target date.
EmptyInputWitness ==
    /\ connections = <<>>
    /\ Analysed /\ ExtendedCalled /\ LoiteringCalled
    /\ target_date_used.analyze_out_of_hours_patterns # NotCalled
    /\ target_date_used.analyze_out_of_hours_patterns[1] = None
    /\ target_date_used.analyze_extended_sessions # NotCalled
    /\ target_date_used.analyze_extended_sessions[1] # None
    /\ \A b \in FiveBuckets : analysis[b] = <<>>

\* The date of a latest event of the whole list.
LatestDates ==
    {connections[i].timestamp.date : i \in
        {j \in 1..Len(connections) :
            \A k \in 1..Len(connections) :
                TsLeq(connections[k].timestamp, connections[j].timestamp)}}

NightOf(mac, date) ==
    {i \in OutOfHoursOf(mac) :
        \/ connections[i].timestamp.date = date /\ HourOf(connections[i].timestamp) >= 18
        \/ connections[i].timestamp.date = date + 1 /\ HourOf(connections[i].timestamp) < 6}

\* C16: without a target date and with a non-empty list, both functions work
\* with the date of the maximum timestamp over all input events (daytime
\* events and events without a MAC included); a supplied target date is used
\* unchanged.
DefaultTargetDate ==
    /\ \A f \in DateFunctions :
          target_date_used[f] # NotCalled =>
            LET arg == target_date_used[f][1]
                date == target_date_used[f][2]
            IN /\ arg # None => date = arg[1]
               /\ (arg = None /\ connections # <<>>) => LatestDates = {date}
    /\ target_date_used.analyze_out_of_hours_patterns # NotCalled =>
          \A mac \in Macs : \A p \in ProfilesOf(mac) :
              p.target_date_connections =
                  Cardinality(NightOf(mac, target_date_used.analyze_out_of_hours_patterns[2]))
    /\ target_date_used.analyze_extended_sessions # NotCalled =>
          \A k \in 1..Len(extended_sessions) :
              extended_sessions[k].first_connection.date =
                  target_date_used.analyze_extended_sessions[2]

\* The latest event is a daytime event of a day after the latest night event.
DefaultTargetDateWitness ==
    /\ target_date_used.analyze_out_of_hours_patterns = <<None, 3>>
    /\ target_date_used.analyze_extended_sessions = <<None, 3>>
    /\ connections = <<Conn("aa", 3, 9 * HourMs, "laptop"),
                       Conn("aa", 2, 18 * HourMs, "laptop")>>
    /\ analysis.baseline_only_devices # <<>>

---------------------------------------------------------------------------
\* The calls of get_client_events made for the baseline so far.
BaselineRequests == SubSeq(requests, 1,
                           IF Len(requests) < 2 * 7 THEN Len(requests) ELSE 2 * 7)

RECURSIVE ReturnedUpTo(_)
ReturnedUpTo(k) == IF k = 0 THEN <<>> ELSE ReturnedUpTo(k - 1) \o requests[k].returned

BaselineFetched == run_pc \in {"target", "process"} \/ (run_pc = "done" /\ requests # <<>>)

\* C17: the baseline is fetched with exactly 14 requests, for i = 7 down to
\* 1 first the evening window [D-i 18:00:00.000Z, D-i 23:59:59.999Z) and then
\* the morning window [D-i+1 00:00:00.000Z, D-i+1 05:59:59.999Z), and the
\* result is the concatenation of the returned events in request order.
BaselineRequestOrder ==
    /\ \A i \in 1..7 :
          LET evening == 2 * (7 - i) + 1
              morning == evening + 1
          IN /\ Len(requests) >= evening =>
                  requests[evening].window =
                      [start_time |-> [date |-> target_date - i, ms |-> 64800000, form |-> "iso"],
                       end_time |-> [date |-> target_date - i, ms |-> 86399999, form |-> "iso"]]
             /\ Len(requests) >= morning =>
                  requests[morning].window =
                      [start_time |-> [date |-> target_date - i + 1, ms |-> 0, form |-> "iso"],
                       end_time |-> [date |-> target_date - i + 1, ms |-> 21599999, form |-> "iso"]]
    /\ run_pc = "baseline" => Len(requests) < 14
    /\ BaselineFetched => Len(BaselineRequests) = 14
    /\ baseline_events = ReturnedUpTo(Len(BaselineRequests))

\* All 14 requests are made and the first and the last of them returned events.
BaselineRequestOrderWitness ==
    /\ run_pc = "target"
    /\ Len(requests) = 14
    /\ requests[1].returned # <<>>
    /\ requests[14].returned # <<>>
    /\ Len(baseline_events) = 3

\* The events of the source that lie in the window of a request.
InWindowOf(request) ==
    LET Inside(event) == /\ TsLeq(request.window.start_time, event.occurredAt)
                         /\ TsLess(event.occurredAt, request.window.end_time)
    IN SelectSeq(source_events, Inside)

RECURSIVE SucceededUpTo(_)
SucceededUpTo(k) ==
    IF k = 0 THEN <<>>
    ELSE SucceededUpTo(k - 1) \o (IF requests[k].ok THEN InWindowOf(requests[k]) ELSE <<>>)

\* C18: when the fetch of a baseline window fails, the requests for the
\* remaining windows are still made, the baseline holds the events of every
\* window that succeeded, and the run goes on to the classification of what
\* was collected instead of aborting.
PartialBaselineContinues ==
    /\ "run_analysis" \notin raised
    /\ run_pc = "baseline" => Len(requests) < 14
    /\ BaselineFetched => Len(BaselineRequests) = 14
    /\ baseline_events = SucceededUpTo(Len(BaselineRequests))
    /\ (run_pc = "done" /\ requests # <<>>) =>
          /\ Len(requests) = 15
          /\ report \in {"analysed", "no_connections"}
          /\ report = "analysed" <=> connections # <<>>
          /\ report = "analysed" => Analysed

\* A run in which one baseline request failed and a later one returned
\* events ended with a classification of the partial baseline.
PartialBaselineWitness ==
    /\ run_pc = "done"
    /\ report = "analysed"
    /\ \E j, k \in 1..14 :
         /\ j < k
         /\ ~requests[j].ok /\ InWindowOf(requests[j]) # <<>>
         /\ requests[k].ok /\ requests[k].returned # <<>>
    /\ analysis.baseline_only_devices # <<>>

\* C19: when every request to the event source raises, the caller of the
\* collector is told of a failure that it can tell from a fetch that
\* succeeded and found no events: the run does not end with the report of an
\* empty result.
UnreachableSourceSurfaced ==
    (run_pc = "done" /\ ~source_up) => report # "no_connections"

---------------------------------------------------------------------------
\* What the claim compares of the records of a device in a bucket.
ComparedFields(list, mac) ==
    {[risk_level |-> list[k].risk_level,
      target_date_connections |-> list[k].target_date_connections,
      baseline_connections |-> list[k].baseline_connections,
      days_seen_out_of_hours |-> list[k].days_seen_out_of_hours,
      description |-> list[k].description,
      first_target_connection |-> list[k].first_target_connection,
      last_target_connection |-> list[k].last_target_connection] :
        k \in RecordsOf(list, mac)}

FlagsOf(list) ==
    {[mac |-> list[k].mac,
      first_target_connection |-> list[k].first_target_connection,
      last_target_connection |-> list[k].last_target_connection] : k \in 1..Len(list)}

\* C20: two orderings of the same connection events with the same target
\* date put every MAC in the same buckets with the same risk_level,
\* target_date_connections, baseline_connections, days_seen_out_of_hours,
\* description and first and last target connection, and the loitering
\* detector flags the same MACs with the same first and last connection.
OrderTolerance ==
    [][AnalyzeReordered =>
         /\ \A mac \in PresentMacs : \A b \in ClassBuckets :
               ComparedFields(analysis'[b], mac) = ComparedFields(analysis[b], mac)
         /\ FlagsOf(analysis'.loitering_devices) = FlagsOf(analysis.loitering_devices)
         /\ FlagsOf(loitering') = FlagsOf(loitering)]_vars

---------------------------------------------------------------------------
\* C21: the three analysis functions leave their input as it was: after a
\* call the caller's connection list has the same length and order and every
\* record the same field values as before.
InputUnchanged ==
    [][calls' # calls => connections' = connections]_vars

\* All three ran on a list in which a device has its connections of the
\* target date out of time order, so that its list had to be sorted.
InputUnchangedWitness ==
    /\ Analysed /\ LoiteringCalled /\ ExtendedCalled
    /\ \E i, j \in 1..Len(connections) :
         /\ i < j
         /\ connections[i].client_mac = connections[j].client_mac
         /\ connections[i].client_mac # ""
         /\ connections[i].timestamp.date = target_date
         /\ connections[j].timestamp.date = target_date
         /\ TsLess(connections[j].timestamp, connections[i].timestamp)

---------------------------------------------------------------------------
ThreeTypes == {"association", "wpa_auth", "disassociation"}

KeyOfEvent(event) == <<event.occurredAt, event.clientMac, event.type>>
KeyOfRecord(record) == <<record.timestamp, record.client_mac, record.event_type>>

\* C22: every record of all_connections and every streamed row has an
\* event_type among association, wpa_auth and disassociation; every fetched
\* event of such a type with a new (occurredAt, clientMac, type) key gives
\* exactly one record, and events of other types give none.
TypeFilter ==
    /\ run_pc = "converted" =>
          /\ \A i \in 1..Len(connections) : connections[i].event_type \in ThreeTypes
          /\ \A event \in Range(target_events) :
                Cardinality({i \in 1..Len(connections) :
                                KeyOfRecord(connections[i]) = KeyOfEvent(event)})
                    = IF event.type \in ThreeTypes THEN 1 ELSE 0
          /\ \A i \in 1..Len(connections) :
                \E event \in Range(target_events) :
                    KeyOfRecord(connections[i]) = KeyOfEvent(event)
    /\ run_pc = "streamed" =>
          /\ \A i \in 1..Len(csv_rows) : csv_rows[i].event_type \in ThreeTypes
          /\ Len(csv_rows) = Cardinality({k \in 1..Len(target_events) :
                                            target_events[k].type \in ThreeTypes})

\* Two deliveries of one key and an event of another type were fetched and
\* converted into one record.
TypeFilterWitness ==
    /\ run_pc = "converted"
    /\ Len(target_events) = 3
    /\ \E j, k \in 1..3 :
         /\ j < k
         /\ target_events[j] # target_events[k]
         /\ KeyOfEvent(target_events[j]) = KeyOfEvent(target_events[k])
    /\ \E k \in 1..3 : target_events[k].type = "wpa_deauth"
    /\ Len(connections) = 1

---------------------------------------------------------------------------
Fetching == fetch.pc \in {"loop", "returned"}

\* C23: a call of get_client_events ends after finitely many page requests
\* in both modes, whatever the source answers.  With finitely many events in
\* the source this is the case iff every page that continues the loop moves
\* the cursor strictly inwards: end_time to an earlier time in bounded mode,
\* start_time to a later one in open-ended mode.
PaginationProgress ==
    [][(fetch.pc = "loop" /\ fetch'.pc = "loop" /\ fetch'.page = fetch.page + 1) =>
          IF fetch.bounded
          THEN TsLess(fetch'.end_time, fetch.end_time)
          ELSE TsLess(fetch.start_time, fetch'.start_time)]_vars

\* C24: with an end_time, every returned event lies in the window that was
\* passed in, start_time <= occurredAt < end_time, on every page and after
\* every move of the cursor; an event stamped at the end of the window is
\* never returned.
WindowRespected ==
    (Fetching /\ fetch.bounded) =>
        \A event \in Range(fetch.all_events) \cup Range(fetch.result) :
            /\ TsLeq(fetch.given_start, event.occurredAt)
            /\ TsLess(event.occurredAt, fetch.given_end)
            /\ event.occurredAt # [date |-> 2, ms |-> 86399999, form |-> "iso"]

\* A bounded call returned after a full page had moved the cursor, with the
\* source offering the event at the end of the window on the next page.
WindowRespectedWitness ==
    /\ fetch.pc = "returned"
    /\ fetch.bounded
    /\ fetch.page = 2
    /\ TsLess(fetch.end_time, fetch.given_end)
    /\ Len(fetch.result) >= 2


\* The distinct calendar dates of mac's baseline connections.
BaselineDatesOf(mac) == {connections[i].timestamp.date : i \in BaselineOf(mac)}

\* The profiles labelled BASELINE_REGULAR by the multi-day rule.
MultiDayProfiles ==
    {p \in Range(analysis.target_date_devices) :
        /\ p.risk_level = Some("BASELINE_REGULAR")
        /\ p.risk_explanation.template = "Regular: across days"}

\* C25 as stated: for a device labelled BASELINE_REGULAR by the multi-day rule,
\* the day count of its explanation and of days_seen_out_of_hours is the number
\* of distinct dates of its baseline connections, which is at least 2.
MultiDayCountsBaselineDates ==
    Analysed =>
        \A p \in MultiDayProfiles :
            /\ p.days_seen_out_of_hours = Cardinality(BaselineDatesOf(p.mac))
            /\ p.risk_explanation.args[2] = Cardinality(BaselineDatesOf(p.mac))
            /\ Cardinality(BaselineDatesOf(p.mac)) >= 2

\* C25 amended: the day count is the number of distinct dates of all the
\* device's out-of-hours connections, those of the target night included; it is
\* at least 2 and the device has at least one baseline connection.
MultiDayCountsAllDates ==
    Analysed =>
        \A p \in MultiDayProfiles :
            /\ p.days_seen_out_of_hours = DaysSeenOf(p.mac)
            /\ p.risk_explanation.args = <<Cardinality(BaselineOf(p.mac)), DaysSeenOf(p.mac)>>
            /\ DaysSeenOf(p.mac) >= 2
            /\ BaselineOf(p.mac) # {}
            /\ Cardinality(BaselineDatesOf(p.mac)) <= DaysSeenOf(p.mac)

\* A multi-day profile whose baseline connections all fall on one date: the
\* second date counted is the target night's.
MultiDayCountsWitness ==
    /\ Analysed
    /\ \E p \in MultiDayProfiles :
         /\ Cardinality(BaselineDatesOf(p.mac)) = 1
         /\ p.days_seen_out_of_hours = 2
         /\ p.baseline_connections = 1

\* C26: every MAC with a non-empty client_mac and at least one out-of-hours
\* event has exactly one record in target_date_devices and baseline_only_devices
\* taken together, in target_date_devices iff it has a target connection; no
\* bucket holds two records of one MAC; a MAC without out-of-hours events, and
\* a MAC that is not in the input, has no record in any of the four buckets.
OneProfilePerMac ==
    Analysed =>
        /\ \A mac \in Macs :
             LET in_target == RecordsOf(analysis.target_date_devices, mac)
                 in_only == RecordsOf(analysis.baseline_only_devices, mac)
             IN IF OutOfHoursOf(mac) # {}
                THEN /\ Cardinality(in_target) + Cardinality(in_only) = 1
                     /\ in_target # {} <=> TargetOf(mac) # {}
                ELSE \A b \in ClassBuckets : ~InBucket(b, mac)
        /\ \A b \in ClassBuckets :
             /\ \A i, j \in 1..Len(analysis[b]) :
                  analysis[b][i].mac = analysis[b][j].mac => i = j
             /\ MacsIn(analysis[b]) \subseteq Macs

\* Two devices in one run: one seen in the daytime only, one with baseline and
\* target connections.
OneProfilePerMacWitness ==
    /\ Analysed
    /\ \E m1, m2 \in Macs :
         /\ OutOfHoursOf(m1) = {}
         /\ TargetOf(m2) # {} /\ BaselineOf(m2) # {}
         /\ InBucket("target_date_devices", m2)

\* C27: a profile labelled LOITERING_SUSPICIOUS is in anomalous_devices and in
\* target_date_devices and never in baseline_regular_devices; every record of
\* baseline_regular_devices is labelled BASELINE_REGULAR and every record of
\* anomalous_devices ANOMALOUS_SUSPICIOUS or LOITERING_SUSPICIOUS.
LoiteringIsAnomalous ==
    Analysed =>
        /\ \A mac \in Macs :
             (\E p \in ProfilesOf(mac) : p.risk_level = Some("LOITERING_SUSPICIOUS")) =>
                 /\ \E i \in RecordsOf(analysis.anomalous_devices, mac) :
                      analysis.anomalous_devices[i].risk_level = Some("LOITERING_SUSPICIOUS")
                 /\ \E i \in RecordsOf(analysis.target_date_devices, mac) :
                      analysis.target_date_devices[i].risk_level = Some("LOITERING_SUSPICIOUS")
                 /\ ~InBucket("baseline_regular_devices", mac)
        /\ \A p \in Range(analysis.baseline_regular_devices) :
             p.risk_level = Some("BASELINE_REGULAR")
        /\ \A p \in Range(analysis.anomalous_devices) :
             p.risk_level \in {Some("ANOMALOUS_SUSPICIOUS"), Some("LOITERING_SUSPICIOUS")}

\* A loitering profile whose baseline counts alone would have made it regular.
LoiteringIsAnomalousWitness ==
    /\ Analysed
    /\ \E p \in Range(analysis.anomalous_devices) :
         /\ p.risk_level = Some("LOITERING_SUSPICIOUS")
         /\ p.baseline_connections >= 1
         /\ p.days_seen_out_of_hours >= 2
         /\ analysis.baseline_regular_devices = <<>>

\* C28: in the returned buckets no record carries the provisional label
\* TARGET_DATE; every record of target_date_devices carries one of the three
\* final labels and is the very record found in anomalous_devices or
\* baseline_regular_devices for the same MAC.
FinalLabels ==
    Analysed =>
        /\ \A b \in ClassBuckets : \A p \in Range(analysis[b]) :
             p.risk_level # Some("TARGET_DATE")
        /\ \A p \in Range(analysis.target_date_devices) :
             /\ p.risk_level \in {Some("LOITERING_SUSPICIOUS"),
                                  Some("ANOMALOUS_SUSPICIOUS"),
                                  Some("BASELINE_REGULAR")}
             /\ \E q \in Range(analysis.anomalous_devices)
                         \cup Range(analysis.baseline_regular_devices) :
                  q.mac = p.mac /\ q.risk_level = p.risk_level /\ q = p

\* Two target-night devices with different final labels, one of them by the
\* last branch of the chain (baseline connections, one day seen).
FinalLabelsWitness ==
    /\ Analysed
    /\ \E p, q \in Range(analysis.target_date_devices) :
         /\ p.risk_level = Some("BASELINE_REGULAR")
         /\ q.risk_level = Some("ANOMALOUS_SUSPICIOUS")
         /\ q.baseline_connections >= 1

\* The positions in the event source of mac's events on the investigation date.
SourceOnTargetDateOf(mac) ==
    {i \in 1..Len(source_events) :
        /\ source_events[i].clientMac = mac
        /\ source_events[i].occurredAt.date = target_date}

\* C29: in the API investigation path with the 18:00 start and the 06:00 end
\* of the next day, the assembled connection list holds no event of the
\* investigation date with hour in 6..17, so no device is flagged for
\* loitering and no profile is labelled LOITERING_SUSPICIOUS.
NoLoiteringInApiPath ==
    (run_pc = "done" /\ report = "analysed") =>
        /\ \A i \in 1..Len(connections) :
             ~(/\ connections[i].timestamp.date = target_date
               /\ HourOf(connections[i].timestamp) \in 6..17)
        /\ Len(analysis.loitering_devices) = 0
        /\ \A b \in ClassBuckets : \A p \in Range(analysis[b]) :
             p.risk_level # Some("LOITERING_SUSPICIOUS")

\* The source holds a device's arrival in the daytime of the investigation
\* date and an event of it more than 8 hours later, after 18:00; every request
\* succeeded, and the device has a profile.
NoLoiteringInApiPathWitness ==
    /\ run_pc = "done" /\ report = "analysed"
    /\ \A k \in 1..Len(requests) : requests[k].ok
    /\ \E mac \in {"aa", "bb"} :
         /\ \E i, j \in SourceOnTargetDateOf(mac) :
              /\ HourOf(source_events[i].occurredAt) \in 6..17
              /\ HourOf(source_events[j].occurredAt) >= 18
              /\ source_events[j].occurredAt.ms - source_events[i].occurredAt.ms
                    > 8 * SecondsPerHour * 1000
              /\ \A k \in SourceOnTargetDateOf(mac) :
                   TsLeq(source_events[i].occurredAt, source_events[k].occurredAt)
         /\ InBucket("target_date_devices", mac)

=============================================================================
